---- MODULE Spec2Model ----
(***************************************************************************)
(* Model of the sensing-and-control loop of mosquito-pt2d:                 *)
(*   - PT2DController (python/pt2d_controller.py): the serial actuator     *)
(*     link, its startup handshake, send_command and the move wrappers;    *)
(*   - the background beep / return-to-home threads of MosquitoTracker     *)
(*     (python/mosquito_tracker.py);                                       *)
(*   - TemperatureMonitor.check_temperature (python/temperature_monitor.py)*)
(*   - MosquitoDetector.check_illumination_status                          *)
(*     (python/mosquito_detector.py).                                      *)
(*   - MosquitoTracker.track_mosquito and MosquitoTracker.run              *)
(*     (python/mosquito_tracker.py): target selection, lock and the        *)
(*     capture loop's gate.                                                *)
(* Time is counted in ticks: one tick is one pass of a polling loop.       *)
(***************************************************************************)
EXTENDS Integers, Sequences, FiniteSets, TLC

VARIABLES
    \* ---- PT2DController fields
    phase,            \* "init" | "startup" | "ready": position in __init__
    is_connected,
    servo_enabled,
    limits,           \* [pan_min, pan_max, tilt_min, tilt_max]
    startupCount,     \* startup lines consumed so far
    sawFullOk,        \* history: a startup line with all four limits and status ok was read
    \* ---- the serial port and the device behind it
    devLimits,        \* the limits the firmware advertises
    inbuf,            \* lines received and not yet read (serial input buffer)
    pending,          \* the device has received a command it has not answered yet
    pendingFor,       \* history: the kind of command its next reply answers,
                      \* Untraced in the runs that keep no such history
    \* ---- one record of call state per thread
    pc, op, arg, retry, attempt, cmd, elapsed, result, cur, stage,
    clog,             \* history: commands written to the port during the current call
    firstJson,        \* history: first JSON-parseable line readline returned in this attempt
    skipped,          \* history: non-JSON lines skipped in this attempt
    waited,           \* history: ticks the current send_command call spent waiting
    writes,           \* history: times the current send_command call wrote its command
    \* ---- MosquitoTracker fields used by the thread spawns
    tracking_active,
    \* ---- TemperatureMonitor
    is_paused, warning_shown, last_temperature, last_check_time, now,
    tempStatus,       \* 'status' of the dict check_temperature returned last
    tempPauses,       \* history: number of not-paused -> paused transitions
    tempLow,          \* history: a sample at or below the resume threshold was taken
    tempLowSincePause,\* history: such a sample was taken since the last pause began
    \* ---- MosquitoDetector illumination monitor
    enable_illumination_monitoring,
    illumination_paused, last_illumination_status, current_illumination,
    last_illumination_check, illumNow,
    illumPauses,      \* history: number of not-paused -> paused transitions
    illumNear,        \* history: every sample so far was within 1 of the pause threshold
    \* ---- MosquitoTracker: target selection and lock (track_mosquito)
    locked_target_position, last_detection_time, last_beep_time,
    trackNow,         \* time.time() as track_mosquito reads it
    frame,            \* history: the detections of the frame processed last
    pre,              \* history: the tracker's fields before that frame
    selected,         \* history: best_detection of that frame
    spawned,          \* history: threads started by that frame, per target
    moveReq,          \* history: the move_by call of that frame
    moveDone,         \* history: how that call ended, and the fields a successful call would have left
    scen,             \* history: leading frames of the two-target scenario seen so far
    locks,            \* history: not-tracking -> tracking transitions so far
    alerts,           \* history: _beep_async threads started so far
    \* ---- MosquitoTracker.run: one pass of the capture loop
    temperature_monitor, \* FALSE when self.temperature_monitor is None
    temp_paused,
    runCalls,         \* history: the calls the last pass made, in order
    runFrames,        \* passes made so far
    detectOut,        \* history: what the last call of detector.detect did
    \* ---- StreamingTrackingSystem: the unique-target tracks
    active_tracks,    \* track_id -> [center, lost_frames]
    next_track_id,
    detection_history,\* track_id -> [frames, positions, static_frames]
    assigned,         \* history: the track_id given to each detection of the last update
    updDets,          \* history: the centres of the detections of the last update
    removed,          \* history: the track ids deleted so far
    walkSlow,         \* history: moves (up to 2) of the one detection every update had, each under max_movement_px_per_frame; -1 when not so
    walkNear,         \* history: the same with each move under track_distance_threshold
    \* ---- MosquitoDetector._detect_tiled: the sliding windows
    frameW, frameH,   \* frame.shape: w, h
    imgsz,
    tile_overlap,     \* in hundredths
    tileXs, tileYs,   \* xs, ys: the window origins; <<>> before the call
    \* ---- MosquitoDetector._nms
    nmsIn,            \* detections: the list given to the last call
    nmsKept,          \* history: the places in that list of the boxes kept, in the order kept
    nmsOut,           \* the list the last call returned
    nmsRuns,          \* calls made so far, each on the result of the one before
    \* ---- StreamingTrackingSystem.run: one pass of the capture loop
    streamCfg,        \* [dual_camera, enable_depth, tracker]: the constructor's outcome
    streamRunning,    \* the while loop of run is still going
    streamFrames,     \* passes made so far
    streamOut,        \* history: what the last pass did
    \* ---- one filter applied to one detection
    probe,            \* the detection given to the filter
    verdict           \* [done, accepted, size]: what the filter made of it

ctrlVars  == <<phase, is_connected, servo_enabled, limits, startupCount, sawFullOk>>
portVars  == <<devLimits, inbuf, pending, pendingFor>>
callVars  == <<pc, op, arg, retry, attempt, cmd, elapsed, result, cur, stage,
               clog, firstJson, skipped, waited, writes>>
trackVars == <<tracking_active>>
linkVars  == <<ctrlVars, portVars, callVars, trackVars>>
tempVars  == <<is_paused, warning_shown, last_temperature, last_check_time, now,
               tempStatus, tempPauses, tempLow, tempLowSincePause>>
illumVars == <<enable_illumination_monitoring, illumination_paused, last_illumination_status, current_illumination,
               last_illumination_check, illumNow, illumPauses, illumNear>>
lockVars  == <<locked_target_position, last_detection_time, last_beep_time,
               trackNow, frame, pre, selected, spawned, moveReq, moveDone, scen,
               locks, alerts>>
runVars   == <<temperature_monitor, temp_paused, runCalls, runFrames, detectOut>>
uniqueVars == <<active_tracks, next_track_id, detection_history, assigned,
                updDets, removed, walkSlow, walkNear>>
tileVars  == <<frameW, frameH, imgsz, tile_overlap, tileXs, tileYs>>
baseVars  == <<linkVars, tempVars, illumVars, lockVars, runVars>>
nmsVars   == <<nmsIn, nmsKept, nmsOut, nmsRuns>>
streamVars == <<streamCfg, streamRunning, streamFrames, streamOut>>
probeVars == <<probe, verdict>>
extraVars == <<uniqueVars, tileVars, nmsVars, streamVars, probeVars>>
nonLinkVars == <<tempVars, illumVars, lockVars, runVars, extraVars>>
nonTempVars == <<linkVars, illumVars, lockVars, runVars, extraVars>>
nonIllumVars == <<linkVars, tempVars, lockVars, runVars, extraVars>>
vars      == <<linkVars, tempVars, illumVars, lockVars, runVars, extraVars>>

(***************************************************************************)
(* Bounds of the model                                                     *)
(***************************************************************************)
MaxStartup == 2      \* startup lines read before the 3 s window closes
MaxBuf == 1          \* lines the input buffer holds
MaxRetry == 2        \* largest retry argument tried
MaxNow == 6          \* check_temperature / check_illumination_status calls in a run
ReadTimeout == 2     \* _read_json_response(timeout=1.0), in ticks
MaxTrackTime == 4    \* seconds of tracking followed
MaxFrames == 2       \* passes of the capture loop followed
MaxTrackId == 3      \* track ids handed out
MaxSide == 8         \* largest frame width and height tiled
MaxTile == 4         \* largest imgsz tiled
MaxBoxes == 3        \* detections merged by one _nms call
MaxNmsRuns == 2      \* _nms calls chained
MaxStreamFrames == 3 \* passes of the streaming loop followed
TrackEpoch == 10     \* the clock when tracking starts

Min2(a, b) == IF a <= b THEN a ELSE b
Max2(a, b) == IF a >= b THEN a ELSE b

(***************************************************************************)
(* Values                                                                  *)
(***************************************************************************)
Threads == {"capture", "beep", "home"}

\* PT2DController.__init__: the limits before the device reports any
DefaultLimits == [pan_min |-> 0, pan_max |-> 270, tilt_min |-> 15, tilt_max |-> 165]

\* limits a firmware may advertise (min <= max on each axis)
DeviceLimitChoices ==
    { [pan_min |-> 0,   pan_max |-> 270, tilt_min |-> 15,  tilt_max |-> 165],
      [pan_min |-> -90, pan_max |-> 90,  tilt_min |-> -45, tilt_max |-> 45] }

\* angles and deltas a caller may ask for, as (pan, tilt): each axis gets a
\* negative, a zero, a moderate and an oversized value
RequestPairs == { <<-400, 400>>, <<0, 100>>, <<100, -400>>, <<400, 0>> }

\* positions the device may report, by index: lowest, middle, highest
PosIndex == {"lo", "mid", "hi"}
DevPan(k)  == CASE k = "lo" -> devLimits.pan_min
                [] k = "hi" -> devLimits.pan_max
                [] OTHER    -> (devLimits.pan_min + devLimits.pan_max) \div 2
DevTilt(k) == CASE k = "lo" -> devLimits.tilt_min
                [] k = "hi" -> devLimits.tilt_max
                [] OTHER    -> (devLimits.tilt_min + devLimits.tilt_max) \div 2

\* A line on the wire.  kind "json" is a line json.loads accepts (a JSON object);
\* "noise" is any other non-empty text; "empty" strips to the empty string.
\* The field "for" is history: the kind of command a reply answers; the text
\* of a reply does not name it.
NoLine    == [kind |-> "none",  status |-> "",   fields |-> "none", pan |-> 0, tilt |-> 0, for |-> ""]
NoiseLine == [kind |-> "noise", status |-> "",   fields |-> "none", pan |-> 0, tilt |-> 0, for |-> ""]
EmptyLine == [kind |-> "empty", status |-> "",   fields |-> "none", pan |-> 0, tilt |-> 0, for |-> ""]
JsonLine(st, f, p, t) ==
    [kind |-> "json", status |-> st, fields |-> f, pan |-> p, tilt |-> t, for |-> ""]

\* the JSON replies of the device: status ok / error, with no position field,
\* with 'pan' only, or with 'pan' and 'tilt'
DeviceReplies ==
    { JsonLine(st, "none", 0, 0) : st \in {"ok", "error"} }
    \cup { JsonLine("ok", "pan", DevPan("mid"), 0) }
    \cup { JsonLine("ok", "both", DevPan(k), DevTilt(k)) : k \in PosIndex }

\* A response dictionary as send_command returns it
Dict(err, st, f, p, t) == [error |-> err, status |-> st, fields |-> f, pan |-> p, tilt |-> t]
ErrDict(msg) == Dict(msg, "", "none", 0, 0)
NoDict == Dict("", "", "none", 0, 0)

\* json.loads on a line: TRUE when it parses
IsJson(line) == line.kind = "json"
\* json.loads(line) for a line that parses
Loads(line) == Dict("", line.status, line.fields, line.pan, line.tilt)

\* A command as written to the port: '<OP:a,b>\n'
Cmd(o, a, b) == [op |-> o, a |-> a, b |-> b]
NoCmd == Cmd("", 0, 0)

NoPos == [known |-> FALSE, pan |-> 0, tilt |-> 0]
Pos(p, t) == [known |-> TRUE, pan |-> p, tilt |-> t]

(***************************************************************************)
(* PT2DController.__init__ and _clear_startup_messages                     *)
(***************************************************************************)
LimitFields == {"pan_min", "pan_max", "tilt_min", "tilt_max"}

\* A JSON startup line: its 'status', whether it carries servo ids ("zero": pan_id
\* or tilt_id is 0 or missing; "pos": both positive) and which limit fields it has.
StartupJson == [kind : {"json"}, status : {"ok", "error", ""},
                ids : {"none", "zero", "pos"}, has : SUBSET LimitFields]
StartupNoise == [kind |-> "noise", status |-> "", ids |-> "none", has |-> {}]
StartupLines == StartupJson \cup {StartupNoise}

\* lines 112-119: each limit field present in the line replaces the stored one
LimitsAfter(lim, msg) ==
    IF msg.kind # "json" THEN lim
    ELSE [f \in LimitFields |-> IF f \in msg.has THEN devLimits[f] ELSE lim[f]]

\* a faulty variant of ServoAfter: enable on four limits whatever the status
ServoAfterAnyStatus(enabled, msg) ==
    IF msg.kind # "json" THEN enabled
    ELSE LET afterErr == IF msg.status = "error" /\ msg.ids = "zero" THEN FALSE ELSE enabled
         IN  IF msg.has = LimitFields THEN TRUE ELSE afterErr

\* lines 97-102 and 122-126: servo_enabled after one startup line
ServoAfter(enabled, msg) ==
    IF msg.kind # "json" THEN enabled
    ELSE LET afterErr == IF msg.status = "error" /\ msg.ids = "zero" THEN FALSE ELSE enabled
         IN  IF msg.has = LimitFields /\ msg.status = "ok" THEN TRUE ELSE afterErr

\* serial.Serial(port, ...) at line 56: it opens, or raises and __init__ ends
\* with is_connected = False
Open ==
    /\ phase = "init"
    /\ \E ok \in BOOLEAN :
         IF ok THEN /\ phase' = "startup"
                    /\ UNCHANGED is_connected
               ELSE /\ phase' = "ready"
                    /\ is_connected' = FALSE
    /\ UNCHANGED <<servo_enabled, limits, startupCount, sawFullOk>>
    /\ UNCHANGED <<portVars, callVars, trackVars>>
    /\ UNCHANGED nonLinkVars

\* one pass of the while loop of _clear_startup_messages that reads a line
StartupRead ==
    /\ phase = "startup"
    /\ startupCount < MaxStartup
    /\ \E msg \in StartupLines :
         /\ limits' = LimitsAfter(limits, msg)
         /\ servo_enabled' = ServoAfter(servo_enabled, msg)
         /\ sawFullOk' = (sawFullOk \/ (msg.kind = "json" /\ msg.has = LimitFields
                                         /\ msg.status = "ok"))
    /\ startupCount' = startupCount + 1
    /\ UNCHANGED <<phase, is_connected>>
    /\ UNCHANGED <<portVars, callVars, trackVars>>
    /\ UNCHANGED nonLinkVars

\* the loop ends (3 s elapsed, or an exception broke it), the buffers are
\* flushed, and __init__ sets is_connected from servo_enabled (lines 64-68)
StartupDone ==
    /\ phase = "startup"
    /\ phase' = "ready"
    /\ is_connected' = servo_enabled
    /\ inbuf' = <<>>
    /\ UNCHANGED <<servo_enabled, limits, startupCount, sawFullOk>>
    /\ UNCHANGED <<devLimits, pending, pendingFor>>
    /\ UNCHANGED <<callVars, trackVars>>
    /\ UNCHANGED nonLinkVars

(***************************************************************************)
(* The device and the serial input buffer                                  *)
(***************************************************************************)
\* the device emits a line that is not its reply: debug text or a blank line
DeviceNoise ==
    /\ phase = "ready"
    /\ pending
    /\ Len(inbuf) < MaxBuf
    /\ \E line \in {NoiseLine, EmptyLine} : inbuf' = Append(inbuf, line)
    /\ UNCHANGED <<devLimits, pending, pendingFor>>
    /\ UNCHANGED <<ctrlVars, callVars, trackVars>>
    /\ UNCHANGED nonLinkVars

\* the runs of several threads keep no history of what a reply answers
Untraced == "untraced"

\* the device answers a command it received; the answer may reach the buffer
\* after the caller has stopped waiting for it
DeviceReply ==
    /\ phase = "ready"
    /\ pending
    /\ Len(inbuf) < MaxBuf
    /\ \E line \in DeviceReplies :
         inbuf' = Append(inbuf, [line EXCEPT !.for = IF pendingFor = Untraced THEN ""
                                                      ELSE pendingFor])
    /\ pending' = FALSE
    /\ pendingFor' = IF pendingFor = Untraced THEN Untraced ELSE ""
    /\ UNCHANGED devLimits
    /\ UNCHANGED <<ctrlVars, callVars, trackVars>>
    /\ UNCHANGED nonLinkVars

(***************************************************************************)
(* PT2DController.send_command and _read_json_response, step by step       *)
(***************************************************************************)
Upd(f, t, v) == [f EXCEPT ![t] = v]

\* lines 183-186: not connected, or range(retry) is empty
send_command(t) ==
    /\ pc[t] = "sc_enter"
    /\ IF ~is_connected
         THEN /\ result' = Upd(result, t, ErrDict("Not connected"))
              /\ pc' = Upd(pc, t, "sc_ret")
         ELSE IF retry[t] <= 0
         THEN /\ result' = Upd(result, t, ErrDict("Max retries exceeded"))
              /\ pc' = Upd(pc, t, "sc_ret")
         ELSE /\ pc' = Upd(pc, t, "sc_flush")
              /\ UNCHANGED result
    /\ attempt' = Upd(attempt, t, 0)
    /\ waited' = Upd(waited, t, 0)
    /\ writes' = Upd(writes, t, 0)
    /\ UNCHANGED <<op, arg, retry, cmd, elapsed, cur, stage, clog, firstJson,
                   skipped>>
    /\ UNCHANGED <<ctrlVars, portVars, trackVars>>
    /\ UNCHANGED nonLinkVars

\* a faulty variant of AfterFailure: one more attempt than asked for
AfterFailureExtra(t, msg) ==
    IF attempt[t] >= retry[t]
      THEN /\ result' = Upd(result, t, ErrDict(msg))
           /\ pc' = Upd(pc, t, "sc_ret")
           /\ UNCHANGED attempt
      ELSE /\ attempt' = Upd(attempt, t, attempt[t] + 1)
           /\ pc' = Upd(pc, t, "sc_flush")
           /\ UNCHANGED result

\* lines 213-215 and 221-225: after an attempt without a response, or one that
\* raised: the last attempt returns the error, any other one leads to the next
AfterFailure(t, msg) ==
    IF attempt[t] = retry[t] - 1
      THEN /\ result' = Upd(result, t, ErrDict(msg))
           /\ pc' = Upd(pc, t, "sc_ret")
           /\ UNCHANGED attempt
      ELSE /\ attempt' = Upd(attempt, t, attempt[t] + 1)
           /\ pc' = Upd(pc, t, "sc_flush")
           /\ UNCHANGED result

\* a serial call (flushInput, write, in_waiting, readline) raises; the except
\* clause of send_command catches it
SerialRaises(t) ==
    /\ pc[t] \in {"sc_flush", "sc_write", "sc_read"}
    /\ AfterFailure(t, "io error")
    /\ UNCHANGED <<op, arg, retry, cmd, elapsed, cur, stage, clog, firstJson,
                   skipped, waited, writes>>
    /\ UNCHANGED <<ctrlVars, portVars, trackVars>>
    /\ UNCHANGED nonLinkVars

\* line 195: self.ser.flushInput()
FlushInput(t) ==
    /\ pc[t] = "sc_flush"
    /\ inbuf' = <<>>
    /\ pc' = Upd(pc, t, "sc_write")
    /\ UNCHANGED <<op, arg, retry, attempt, cmd, elapsed, result, cur, stage,
                   clog, firstJson, skipped, waited, writes>>
    /\ UNCHANGED <<devLimits, pending, pendingFor>>
    /\ UNCHANGED <<ctrlVars, trackVars>>
    /\ UNCHANGED nonLinkVars

\* line 198: self.ser.write(cmd.encode()); the device receives the command.
\* Line 202 then enters _read_json_response, whose clock starts at 0.
Write(t) ==
    /\ pc[t] = "sc_write"
    /\ clog' = Upd(clog, t, Append(clog[t], cmd[t]))
    /\ pending' = TRUE
    /\ pendingFor' = IF pending \/ pendingFor = Untraced THEN pendingFor ELSE cmd[t].op
    /\ pc' = Upd(pc, t, "sc_read")
    /\ elapsed' = Upd(elapsed, t, 0)
    /\ firstJson' = Upd(firstJson, t, NoLine)
    /\ skipped' = Upd(skipped, t, 0)
    /\ writes' = Upd(writes, t, writes[t] + 1)
    /\ UNCHANGED <<op, arg, retry, attempt, cmd, result, cur, stage, waited>>
    /\ UNCHANGED <<devLimits, inbuf>>
    /\ UNCHANGED <<ctrlVars, trackVars>>
    /\ UNCHANGED nonLinkVars

\* a faulty variant of ReadLine for the skipping of noise: a line that does not
\* parse fails the read
ReadLineStrict(t, line) ==
    /\ result' = Upd(result, t, IF IsJson(line) THEN Loads(line)
                                ELSE ErrDict("Failed to parse JSON"))
    /\ pc' = Upd(pc, t, "sc_ret")
    /\ UNCHANGED attempt

\* a faulty variant of ReadLine for the retry policy: an error response is retried
\* like a missing one
ReadLineRetryError(t, line) ==
    IF IsJson(line) /\ (line.status # "error" \/ attempt[t] = retry[t] - 1)
      THEN /\ result' = Upd(result, t, Loads(line))
           /\ pc' = Upd(pc, t, "sc_ret")
           /\ UNCHANGED attempt
      ELSE IF IsJson(line)
      THEN /\ attempt' = Upd(attempt, t, attempt[t] + 1)
           /\ pc' = Upd(pc, t, "sc_flush")
           /\ UNCHANGED result
      ELSE UNCHANGED <<result, pc, attempt>>

\* lines 158-167 and 204-207: a non-empty line that parses is returned by
\* _read_json_response and send_command returns json.loads of it; a line that
\* does not parse is skipped and the loop goes on
ReadLine(t, line) ==
    IF IsJson(line)
      THEN /\ result' = Upd(result, t, Loads(line))
           /\ pc' = Upd(pc, t, "sc_ret")
           /\ UNCHANGED attempt
      ELSE UNCHANGED <<result, pc, attempt>>

\* one pass of the while loop of _read_json_response with a line waiting
ReadPass(t) ==
    /\ pc[t] = "sc_read"
    /\ elapsed[t] < ReadTimeout
    /\ inbuf # <<>>
    /\ LET line == Head(inbuf) IN
         /\ inbuf' = Tail(inbuf)
         /\ IF line.kind = "empty"
              THEN UNCHANGED <<result, pc, attempt>>
              ELSE ReadLine(t, line)
         /\ firstJson' = Upd(firstJson, t,
                IF firstJson[t] = NoLine /\ IsJson(line) THEN line ELSE firstJson[t])
         /\ skipped' = Upd(skipped, t,
                IF firstJson[t] = NoLine /\ ~IsJson(line) THEN skipped[t] + 1
                ELSE skipped[t])
    /\ elapsed' = Upd(elapsed, t, elapsed[t] + 1)
    /\ waited' = Upd(waited, t, waited[t] + 1)
    /\ UNCHANGED <<op, arg, retry, cmd, cur, stage, clog, writes>>
    /\ UNCHANGED <<devLimits, pending, pendingFor>>
    /\ UNCHANGED <<ctrlVars, trackVars>>
    /\ UNCHANGED nonLinkVars

\* one pass of the while loop with nothing waiting: time.sleep(0.01)
ReadSleep(t) ==
    /\ pc[t] = "sc_read"
    /\ elapsed[t] < ReadTimeout
    /\ inbuf = <<>>
    /\ elapsed' = Upd(elapsed, t, elapsed[t] + 1)
    /\ waited' = Upd(waited, t, waited[t] + 1)
    /\ UNCHANGED <<pc, op, arg, retry, attempt, cmd, result, cur, stage,
                   clog, firstJson, skipped, writes>>
    /\ UNCHANGED <<ctrlVars, portVars, trackVars>>
    /\ UNCHANGED nonLinkVars

\* line 170 and 212-219: the loop ran out of time and returned ""
ReadTimedOut(t) ==
    /\ pc[t] = "sc_read"
    /\ elapsed[t] >= ReadTimeout
    /\ AfterFailure(t, "No response received")
    /\ UNCHANGED <<op, arg, retry, cmd, elapsed, cur, stage, clog, firstJson,
                   skipped, waited, writes>>
    /\ UNCHANGED <<ctrlVars, portVars, trackVars>>
    /\ UNCHANGED nonLinkVars

(***************************************************************************)
(* The callers of send_command                                             *)
(***************************************************************************)
\* a faulty variant of Clamp: only the upper limit is applied
ClampUpperOnly(lo, hi, x) == Min2(hi, x)

\* lines 272-273: max(lo, min(hi, x))
Clamp(lo, hi, x) == Max2(lo, Min2(hi, x))

\* a faulty variant of PositionOf: 'pan' alone counts as a position
PositionOfPanOnly(d) ==
    IF d.fields \in {"pan", "both"} THEN Pos(d.pan, d.tilt) ELSE NoPos

\* get_position, lines 318-320: (pan, tilt) when the response has both fields,
\* (None, None) otherwise
PositionOf(d) ==
    IF d.fields = "both" THEN Pos(d.pan, d.tilt) ELSE NoPos

\* line 308: the command move_by sends once the position is known
MoverCommand(pan_delta, tilt_delta, current) == Cmd("MOVER", pan_delta, tilt_delta)

\* a call enters send_command(c, retry = n)
Enter(t, o, a, n, c, st) ==
    /\ op' = Upd(op, t, o)
    /\ arg' = Upd(arg, t, a)
    /\ retry' = Upd(retry, t, n)
    /\ cmd' = Upd(cmd, t, c)
    /\ stage' = Upd(stage, t, st)
    /\ pc' = Upd(pc, t, "sc_enter")
    /\ UNCHANGED <<attempt, elapsed, result, cur, clog, firstJson, skipped,
                   waited, writes>>

\* a call returns an error before any serial I/O
Refuse(t, o, a, msg) ==
    /\ op' = Upd(op, t, o)
    /\ arg' = Upd(arg, t, a)
    /\ result' = Upd(result, t, ErrDict(msg))
    /\ pc' = Upd(pc, t, "done")
    /\ UNCHANGED <<retry, attempt, cmd, elapsed, cur, stage, clog, firstJson,
                   skipped, waited, writes>>

\* PT2DController.move_to(pan, tilt)
move_to(t, pan, tilt) ==
    /\ phase = "ready"
    /\ pc[t] = "idle"
    /\ IF ~servo_enabled
         THEN Refuse(t, "move_to", <<pan, tilt>>, "Servo control is disabled")
         ELSE Enter(t, "move_to", <<pan, tilt>>, 1,
                    Cmd("MOVE", Clamp(limits.pan_min, limits.pan_max, pan),
                                Clamp(limits.tilt_min, limits.tilt_max, tilt)), "")
    /\ UNCHANGED <<ctrlVars, portVars, trackVars>>
    /\ UNCHANGED nonLinkVars

\* PT2DController.move_by(pan_delta, tilt_delta) up to its position query
move_by(t, pan_delta, tilt_delta) ==
    /\ phase = "ready"
    /\ pc[t] = "idle"
    /\ IF ~servo_enabled
         THEN Refuse(t, "move_by", <<pan_delta, tilt_delta>>, "Servo control is disabled")
         ELSE Enter(t, "move_by", <<pan_delta, tilt_delta>>, 1, Cmd("POS", 0, 0), "pos")
    /\ UNCHANGED <<ctrlVars, portVars, trackVars>>
    /\ UNCHANGED nonLinkVars

\* PT2DController.get_position()
get_position(t) ==
    /\ phase = "ready"
    /\ pc[t] = "idle"
    /\ Enter(t, "get_position", <<0, 0>>, 1, Cmd("POS", 0, 0), "")
    /\ UNCHANGED <<ctrlVars, portVars, trackVars>>
    /\ UNCHANGED nonLinkVars

\* a direct send_command(cmd, retry = n), as the protocol test script and the
\* status queries make
send_direct(t, n) ==
    /\ phase = "ready"
    /\ pc[t] = "idle"
    /\ Enter(t, "send_command", <<0, 0>>, n, Cmd("STATUS", 0, 0), "")
    /\ UNCHANGED <<ctrlVars, portVars, trackVars>>
    /\ UNCHANGED nonLinkVars

\* send_command has returned: the rest of the caller
Return(t) ==
    /\ pc[t] = "sc_ret"
    /\ IF op[t] = "move_by" /\ stage[t] = "pos"
         THEN LET p == PositionOf(result[t]) IN
              /\ cur' = Upd(cur, t, p)
              /\ IF p.known
                   THEN /\ cmd' = Upd(cmd, t, MoverCommand(arg[t][1], arg[t][2], p))
                        /\ stage' = Upd(stage, t, "mover")
                        /\ pc' = Upd(pc, t, "sc_enter")
                        /\ UNCHANGED result
                   ELSE /\ result' = Upd(result, t, ErrDict("Cannot get current position"))
                        /\ pc' = Upd(pc, t, "done")
                        /\ UNCHANGED <<cmd, stage>>
         ELSE /\ cur' = Upd(cur, t, IF op[t] = "get_position"
                                      THEN PositionOf(result[t]) ELSE cur[t])
              /\ pc' = Upd(pc, t, "done")
              /\ UNCHANGED <<cmd, stage, result>>
    /\ UNCHANGED <<op, arg, retry, attempt, elapsed, clog, firstJson, skipped,
                   waited, writes>>
    /\ UNCHANGED <<ctrlVars, portVars, trackVars>>
    /\ UNCHANGED nonLinkVars

\* the call is over and its locals are dropped
Finish(t) ==
    /\ pc[t] = "done"
    /\ pc' = Upd(pc, t, "idle")
    /\ op' = Upd(op, t, "")
    /\ arg' = Upd(arg, t, <<0, 0>>)
    /\ retry' = Upd(retry, t, 0)
    /\ attempt' = Upd(attempt, t, 0)
    /\ cmd' = Upd(cmd, t, NoCmd)
    /\ elapsed' = Upd(elapsed, t, 0)
    /\ result' = Upd(result, t, NoDict)
    /\ cur' = Upd(cur, t, NoPos)
    /\ stage' = Upd(stage, t, "")
    /\ clog' = Upd(clog, t, <<>>)
    /\ firstJson' = Upd(firstJson, t, NoLine)
    /\ skipped' = Upd(skipped, t, 0)
    /\ waited' = Upd(waited, t, 0)
    /\ writes' = Upd(writes, t, 0)
    /\ UNCHANGED <<ctrlVars, portVars, trackVars>>
    /\ UNCHANGED nonLinkVars

(***************************************************************************)
(* TemperatureMonitor.check_temperature                                    *)
(***************************************************************************)
\* config_loader.py: the fallbacks of the temperature section, in degrees C
\* and seconds
TEMPERATURE_WARNING_THRESHOLD == 75
TEMPERATURE_PAUSE_THRESHOLD == 80
TEMPERATURE_RESUME_THRESHOLD == 70
TEMPERATURE_CHECK_INTERVAL == 60

\* readings of the sensor: below, at and above each threshold
TempReadings == {65, 70, 72, 75, 78, 80, 85}
\* seconds between two calls: within one check interval, or a whole one
TempSteps == {20, 60}

\* a faulty variant of PausedAfter: resume as soon as the reading is under the
\* pause threshold
PausedAfterNoHysteresis(paused, temp) == temp >= TEMPERATURE_PAUSE_THRESHOLD

\* lines 185-193: is_paused after a sample
PausedAfter(paused, temp) ==
    IF ~paused /\ temp >= TEMPERATURE_PAUSE_THRESHOLD THEN TRUE
    ELSE IF paused /\ temp <= TEMPERATURE_RESUME_THRESHOLD THEN FALSE
    ELSE paused

\* lines 185-209: the 'status' returned and warning_shown after a sample
StatusAfter(paused, shown, temp) ==
    IF ~paused /\ temp >= TEMPERATURE_PAUSE_THRESHOLD THEN "paused"
    ELSE IF paused /\ temp <= TEMPERATURE_RESUME_THRESHOLD THEN "resumed"
    ELSE IF ~paused /\ temp >= TEMPERATURE_WARNING_THRESHOLD /\ ~shown THEN "warning"
    ELSE "normal"

WarningShownAfter(paused, shown, temp) ==
    IF ~paused /\ temp >= TEMPERATURE_PAUSE_THRESHOLD THEN shown
    ELSE IF paused /\ temp <= TEMPERATURE_RESUME_THRESHOLD THEN FALSE
    ELSE IF ~paused /\ temp >= TEMPERATURE_WARNING_THRESHOLD THEN TRUE
    ELSE IF shown /\ temp < TEMPERATURE_WARNING_THRESHOLD THEN FALSE
    ELSE shown

TempHistoryUnchanged == UNCHANGED <<tempPauses, tempLow, tempLowSincePause>>

\* a call within the check interval: the cached answer (lines 161-167)
CheckTemperatureCached ==
    /\ \E d \in TempSteps :
         /\ now + d <= TEMPERATURE_CHECK_INTERVAL * MaxNow
         /\ now' = now + d
         /\ now' - last_check_time < TEMPERATURE_CHECK_INTERVAL
    /\ tempStatus' = "cached"
    /\ UNCHANGED <<is_paused, warning_shown, last_temperature, last_check_time>>
    /\ TempHistoryUnchanged

\* check_temperature called on its own, answering from the cache
check_temperature_cached ==
    /\ CheckTemperatureCached
    /\ UNCHANGED nonTempVars

\* a call that samples, and get_temperature returns None (lines 172-178)
CheckTemperatureUnavailable ==
    /\ \E d \in TempSteps :
         /\ now + d <= TEMPERATURE_CHECK_INTERVAL * MaxNow
         /\ now' = now + d
         /\ now' - last_check_time >= TEMPERATURE_CHECK_INTERVAL
    /\ last_check_time' = now'
    /\ tempStatus' = "unavailable"
    /\ UNCHANGED <<is_paused, warning_shown, last_temperature>>
    /\ TempHistoryUnchanged

\* check_temperature called on its own, the sensor giving nothing
check_temperature_unavailable ==
    /\ CheckTemperatureUnavailable
    /\ UNCHANGED nonTempVars

\* a call that samples a reading (lines 169-216)
CheckTemperatureSampled ==
    /\ \E d \in TempSteps :
         /\ now + d <= TEMPERATURE_CHECK_INTERVAL * MaxNow
         /\ now' = now + d
         /\ now' - last_check_time >= TEMPERATURE_CHECK_INTERVAL
    /\ last_check_time' = now'
    /\ \E temp \in TempReadings :
         /\ last_temperature' = temp
         /\ is_paused' = PausedAfter(is_paused, temp)
         /\ tempStatus' = StatusAfter(is_paused, warning_shown, temp)
         /\ warning_shown' = WarningShownAfter(is_paused, warning_shown, temp)
         /\ tempPauses' = IF ~is_paused /\ is_paused' THEN tempPauses + 1 ELSE tempPauses
         /\ tempLow' = (tempLow \/ temp <= TEMPERATURE_RESUME_THRESHOLD)
         /\ tempLowSincePause' =
               IF ~is_paused /\ is_paused' THEN FALSE
               ELSE (tempLowSincePause \/ temp <= TEMPERATURE_RESUME_THRESHOLD)

\* check_temperature called on its own, sampling a reading
check_temperature ==
    /\ CheckTemperatureSampled
    /\ UNCHANGED nonTempVars

TempNext ==
    \/ check_temperature_cached
    \/ check_temperature_unavailable
    \/ check_temperature

(***************************************************************************)
(* MosquitoDetector.check_illumination_status                              *)
(***************************************************************************)
\* config_loader.py: the fallbacks of the illumination section (brightness
\* 0..255, seconds)
ILLUMINATION_WARNING_THRESHOLD == 60
ILLUMINATION_PAUSE_THRESHOLD == 40
ILLUMINATION_CHECK_INTERVAL == 5

\* mean brightness of a frame: dark, around the pause threshold, around the
\* warning threshold, bright
IllumReadings == {10, 39, 40, 41, 59, 60, 200}
IllumSteps == {2, 5}

\* a faulty variant of IllumPausedAfter: once paused, stay paused until the reading
\* is back over the warning threshold
IllumPausedAfterHysteresis(paused, illumination) ==
    IF illumination < ILLUMINATION_PAUSE_THRESHOLD THEN TRUE
    ELSE IF illumination < ILLUMINATION_WARNING_THRESHOLD THEN paused
    ELSE FALSE

\* lines 426-440: illumination_paused after a sample
IllumPausedAfter(paused, illumination) ==
    IF illumination < ILLUMINATION_PAUSE_THRESHOLD THEN TRUE
    ELSE IF illumination < ILLUMINATION_WARNING_THRESHOLD THEN FALSE
    ELSE FALSE

\* lines 426-440: the 'status' after a sample
IllumStatusAfter(illumination) ==
    IF illumination < ILLUMINATION_PAUSE_THRESHOLD THEN "paused"
    ELSE IF illumination < ILLUMINATION_WARNING_THRESHOLD THEN "warning"
    ELSE "ok"

\* monitoring is disabled: lines 398-404, nothing is sampled or stored
CheckIlluminationDisabled ==
    /\ ~enable_illumination_monitoring
    /\ \E d \in IllumSteps :
         /\ illumNow + d <= ILLUMINATION_CHECK_INTERVAL * MaxNow
         /\ illumNow' = illumNow + d
    /\ UNCHANGED <<enable_illumination_monitoring, illumination_paused,
                   last_illumination_status, current_illumination,
                   last_illumination_check, illumPauses, illumNear>>

\* check_illumination_status called on its own, monitoring disabled
check_illumination_disabled ==
    /\ CheckIlluminationDisabled
    /\ UNCHANGED nonIllumVars

\* a call within the check interval: the stored state (lines 409-416)
CheckIlluminationCached ==
    /\ enable_illumination_monitoring
    /\ \E d \in IllumSteps :
         /\ illumNow + d <= ILLUMINATION_CHECK_INTERVAL * MaxNow
         /\ illumNow' = illumNow + d
         /\ illumNow' - last_illumination_check < ILLUMINATION_CHECK_INTERVAL
    /\ UNCHANGED <<enable_illumination_monitoring, illumination_paused,
                   last_illumination_status, current_illumination,
                   last_illumination_check, illumPauses, illumNear>>

\* check_illumination_status called on its own, within the interval
check_illumination_cached ==
    /\ CheckIlluminationCached
    /\ UNCHANGED nonIllumVars

\* a call that samples the frame's brightness (lines 418-450)
CheckIlluminationSampled ==
    /\ enable_illumination_monitoring
    /\ \E d \in IllumSteps :
         /\ illumNow + d <= ILLUMINATION_CHECK_INTERVAL * MaxNow
         /\ illumNow' = illumNow + d
         /\ illumNow' - last_illumination_check >= ILLUMINATION_CHECK_INTERVAL
    /\ last_illumination_check' = illumNow'
    /\ \E illumination \in IllumReadings :
         /\ current_illumination' = illumination
         /\ illumination_paused' = IllumPausedAfter(illumination_paused, illumination)
         /\ last_illumination_status' = IllumStatusAfter(illumination)
         /\ illumPauses' = IF ~illumination_paused /\ illumination_paused'
                             THEN illumPauses + 1 ELSE illumPauses
         /\ illumNear' = (illumNear
                           /\ illumination >= ILLUMINATION_PAUSE_THRESHOLD - 1
                           /\ illumination <= ILLUMINATION_PAUSE_THRESHOLD + 1)
    /\ UNCHANGED enable_illumination_monitoring

\* check_illumination_status called on its own, sampling the frame
check_illumination_status ==
    /\ CheckIlluminationSampled
    /\ UNCHANGED nonIllumVars

IllumNext ==
    \/ check_illumination_disabled
    \/ check_illumination_cached
    \/ check_illumination_status

(***************************************************************************)
(* MosquitoTracker.track_mosquito: target selection and lock               *)
(***************************************************************************)
\* config_loader.py: the fallbacks of the tracking, alert and camera sections
\* (pixels, seconds, gains in hundredths)
TARGET_LOCK_DISTANCE == 100
NO_DETECTION_TIMEOUT == 3
BEEP_COOLDOWN == 2
PAN_GAIN_PCT == 15
TILT_GAIN_PCT == 15
CAMERA_WIDTH == 3840
CAMERA_HEIGHT == 1080
\* track_mosquito, line 313: the smallest angle worth a move
MOVE_DEADBAND == 2

\* a detection: centre, confidence in tenths, and the insect it belongs to
Det(i, px, py, c) == [id |-> i, x |-> px, y |-> py, conf |-> c]
NoDet == Det("", 0, 0, 0)
NoFrame == [left |-> <<>>, right |-> <<>>]
NoMove == [asked |-> FALSE, pan |-> 0, tilt |-> 0]
NoThreads == [beep |-> 0, home |-> 0]
NoTarget == [known |-> FALSE, x |-> 0, y |-> 0]
TargetAt(px, py) == [known |-> TRUE, x |-> px, y |-> py]
NoPre == [valid |-> FALSE, tracking |-> FALSE, locked |-> NoTarget]

\* test_multi_target_tracking.py, test_scenario_1: insect A moves by (5, 3) a
\* frame from (300, 200) with confidence 0.8, insect B rests at (400, 250)
\* with confidence 0.6, for ScenarioFrames frames
ScenarioFrames == 5
ScenarioA(i) == Det("A", 300 + 5 * i, 200 + 3 * i, 8)
ScenarioB == Det("B", 400, 250, 6)

\* the detections a frame may hold: insect A at its first two places and
\* insect B of scenario 1, and the confident far one of scenario 2
Dets == { ScenarioA(0), ScenarioA(1), ScenarioB, Det("C", 500, 300, 9) }

\* the lists of detections one camera may give
OneLists == { <<a>> : a \in Dets }
TwoLists == UNION { { <<a, b>> : b \in (Dets \ {a}) } : a \in Dets }
\* the frames fed to the tracker: nothing, one camera seeing one or two
\* insects, or each camera seeing one
FramesFed ==
    { [left |-> l, right |-> <<>>] : l \in { <<>> } \cup OneLists \cup TwoLists }
    \cup { [left |-> <<>>, right |-> r] : r \in OneLists \cup TwoLists }
    \cup { [left |-> l, right |-> r] : l \in OneLists, r \in OneLists }
FrameSize(f) == Len(f.left) + Len(f.right)
FrameDets(f) == { f.left[i] : i \in 1..Len(f.left) } \cup { f.right[i] : i \in 1..Len(f.right) }
\* seconds between two frames
FrameSteps == {0, 1, 2}

\* squared distance of a detection's centre to a position
Dist2(a, t) == (a.x - t.x) * (a.x - t.x) + (a.y - t.y) * (a.y - t.y)
\* np.sqrt(d2) < target_lock_distance
WithinLock(a, t) == Dist2(a, t) < TARGET_LOCK_DISTANCE * TARGET_LOCK_DISTANCE

\* _find_closest_detection, lines 190-220: the first detection at the least
\* distance, when that distance is under the lock distance
FindClosest(dets, t) ==
    IF Len(dets) = 0 \/ ~t.known THEN NoDet
    ELSE LET k == CHOOSE i \in 1..Len(dets) :
                     \A j \in 1..Len(dets) :
                         /\ Dist2(dets[i], t) <= Dist2(dets[j], t)
                         /\ j < i => Dist2(dets[j], t) > Dist2(dets[i], t)
         IN IF WithinLock(dets[k], t) THEN dets[k] ELSE NoDet

\* a faulty variant of GetLargest: the first detection of the list
GetFirst(dets) == IF Len(dets) = 0 THEN NoDet ELSE dets[1]

\* a faulty variant of GetLargest: the least confident detection
GetLowest(dets) ==
    IF Len(dets) = 0 THEN NoDet
    ELSE dets[CHOOSE i \in 1..Len(dets) : \A j \in 1..Len(dets) : dets[i].conf <= dets[j].conf]

\* MosquitoDetector.get_largest_detection: max(detections, key = confidence),
\* the first of the most confident ones
GetLargest(dets) ==
    IF Len(dets) = 0 THEN NoDet
    ELSE dets[CHOOSE i \in 1..Len(dets) :
                 \A j \in 1..Len(dets) :
                     /\ dets[i].conf >= dets[j].conf
                     /\ j < i => dets[j].conf < dets[i].conf]

\* a faulty variant of NewChoice: the right camera is not consulted
NewChoiceLeftOnly(left, right) ==
    LET left_best == GetLargest(left) IN
    IF left_best # NoDet /\ left_best.conf > 0 THEN left_best ELSE NoDet

\* track_mosquito, lines 265-281: the choice of a new target
NewChoice(left, right) ==
    LET left_best == GetLargest(left)
        right_best == GetLargest(right)
        after_left == IF left_best # NoDet /\ left_best.conf > 0 THEN left_best ELSE NoDet
    IN IF right_best # NoDet /\ right_best.conf > after_left.conf
         THEN right_best ELSE after_left

\* a faulty variant of LockedChoice: the most confident detection of the
\* frame, wherever it is
LockedChoiceByConfidence(left, right, t) == NewChoice(left, right)

\* track_mosquito, lines 240-263: the choice while locked
LockedChoice(left, right, t) ==
    LET left_closest == FindClosest(left, t)
        right_closest == FindClosest(right, t)
    IN IF left_closest # NoDet /\ right_closest # NoDet
         THEN IF left_closest.conf >= right_closest.conf
                THEN left_closest ELSE right_closest
       ELSE IF left_closest # NoDet THEN left_closest
       ELSE right_closest

\* a faulty variant of LockAfterMiss: the last position is kept
LockAfterMissKept(t) == t

\* line 263: no detection near the locked position, the lock is released
LockAfterMiss(t) == NoTarget

\* a faulty variant of TimedOut: any frame without a target ends the tracking
TimedOutAtOnce(current_time, last) == TRUE

\* line 340: time_since_last_detection > no_detection_timeout
TimedOut(current_time, last) == current_time - last > NO_DETECTION_TIMEOUT

\* a faulty variant of BeepDue: the alert is never due
BeepNeverDue(current_time, last) == FALSE

\* line 302: current_time - last_beep_time > beep_cooldown
BeepDue(current_time, last) == current_time - last > BEEP_COOLDOWN

\* int(x * gain): truncation toward zero
TruncPct(x, pct) == IF x >= 0 THEN (x * pct) \div 100 ELSE -(((-x) * pct) \div 100)
Abs(x) == IF x >= 0 THEN x ELSE -x

\* calculate_target_angles, lines 166-188
calculate_target_angles(target_x, target_y) ==
    LET error_x == target_x - (CAMERA_WIDTH \div 2)
        error_y == target_y - (CAMERA_HEIGHT \div 2)
    IN <<TruncPct(error_x, PAN_GAIN_PCT), TruncPct(-error_y, TILT_GAIN_PCT)>>

\* faulty variant: every angle, however small, is sent to the gimbal
MoveForAlways(best) ==
    LET dl == calculate_target_angles(best.x, best.y) IN
    [asked |-> TRUE, pan |-> dl[1], tilt |-> dl[2]]

\* lines 306-319: the move_by request for the chosen detection
MoveFor(best) ==
    LET dl == calculate_target_angles(best.x, best.y) IN
    IF Abs(dl[1]) > MOVE_DEADBAND \/ Abs(dl[2]) > MOVE_DEADBAND
      THEN [asked |-> TRUE, pan |-> dl[1], tilt |-> dl[2]]
      ELSE NoMove

\* the frame is frame i of the two-target scenario
IsScenarioFrame(f, i) == FrameSize(f) = 2 /\ FrameDets(f) = { ScenarioA(i), ScenarioB }

\* how self.controller.move_by(pan_delta, tilt_delta) may end: it returns
\* the device's answer, an error answer or the answer of a timed-out
\* exchange, or it raises
MoveOutcomes == {"ok", "error", "timeout", "raised"}

\* faulty variant: the target is locked but the tracking is not started
FieldsNotStarted(active, locked, detection_time, beep_time) ==
    [tracking_active |-> FALSE, locked_target_position |-> locked,
     last_detection_time |-> detection_time, last_beep_time |-> beep_time,
     raised |-> FALSE]

\* the tracker's fields as a frame with a detection has set them by line 307
Fields(active, locked, detection_time, beep_time) ==
    [tracking_active |-> active, locked_target_position |-> locked,
     last_detection_time |-> detection_time, last_beep_time |-> beep_time,
     raised |-> FALSE]
NoMoveDone == [outcome |-> "none", raised |-> FALSE, expected |-> Fields(FALSE, NoTarget, 0, 0)]

\* line 315: the value move_by returns is dropped; an exception leaves the call
MoveCall(o, st) == [st EXCEPT !.raised = (o = "raised")]

\* lines 317-319: except Exception logs the failure and goes on
ExceptMove(st) == [st EXCEPT !.raised = FALSE]

\* faulty variant: a move that did not succeed ends the tracking
AfterMoveGivesUp(o, st) ==
    IF o = "ok" THEN st
    ELSE [st EXCEPT !.tracking_active = FALSE, !.locked_target_position = NoTarget]

\* lines 313-319: the fields after the try block around move_by
AfterMove(o, st) == ExceptMove(MoveCall(o, st))

\* track_mosquito(left_detections, right_detections, ...) on the frame f that
\* arrives d seconds after the previous one, the move_by call, if one is
\* made, ending as o: what it does to the tracker
TrackMosquitoMove(f, d, o) ==
    LET current_time == trackNow + d
        locking == tracking_active /\ locked_target_position.known
        near == IF locking
                  THEN LockedChoice(f.left, f.right, locked_target_position)
                  ELSE NoDet
        missed == locking /\ near = NoDet
        released == IF missed THEN LockAfterMiss(locked_target_position)
                    ELSE locked_target_position
        best_detection == IF near # NoDet THEN near ELSE NewChoice(f.left, f.right)
        beep == ~tracking_active /\ BeepDue(current_time, last_beep_time)
        lost == tracking_active /\ TimedOut(current_time, last_detection_time)
    IN
    /\ trackNow' = current_time
    /\ frame' = f
    /\ pre' = [valid |-> TRUE, tracking |-> tracking_active,
               locked |-> locked_target_position]
    /\ selected' = best_detection
    /\ IF selected' # NoDet
         THEN \E set \in { Fields(TRUE, TargetAt(selected'.x, selected'.y),
                                   current_time,
                                   IF beep THEN current_time ELSE last_beep_time) } :
              \E move \in { MoveFor(selected') } :
              \E st \in { IF move.asked THEN AfterMove(o, set) ELSE set } :
                 /\ last_detection_time' = st.last_detection_time
                 /\ tracking_active' = st.tracking_active
                 /\ last_beep_time' = st.last_beep_time
                 /\ spawned' = [beep |-> IF beep THEN 1 ELSE 0, home |-> 0]
                 /\ locked_target_position' = st.locked_target_position
                 /\ moveReq' = move
                 /\ moveDone' = IF move.asked
                                  THEN [outcome |-> o, raised |-> st.raised,
                                        expected |-> AfterMove("ok", set)]
                                  ELSE NoMoveDone
         ELSE /\ tracking_active' = (tracking_active /\ ~lost)
              /\ spawned' = [beep |-> 0, home |-> IF lost THEN 1 ELSE 0]
              /\ locked_target_position' = IF lost THEN NoTarget ELSE released
              /\ moveReq' = NoMove
              /\ moveDone' = NoMoveDone
              /\ UNCHANGED <<last_detection_time, last_beep_time>>
    /\ locks' = IF ~tracking_active /\ tracking_active' THEN locks + 1 ELSE locks
    /\ alerts' = alerts + spawned'.beep
    /\ scen' = IF ~tracking_active /\ IsScenarioFrame(f, 0) THEN 1
               ELSE IF scen \in 1..(ScenarioFrames - 1) /\ IsScenarioFrame(f, scen)
                 THEN scen + 1
               ELSE 0

\* track_mosquito with a move_by call that succeeds
TrackMosquito(f, d) == TrackMosquitoMove(f, d, "ok")

\* one call of track_mosquito
track_mosquito ==
    /\ \E d \in FrameSteps :
         /\ trackNow + d <= TrackEpoch + MaxTrackTime
         /\ \E f \in FramesFed : TrackMosquito(f, d)
    /\ UNCHANGED <<ctrlVars, portVars, callVars>>
    /\ UNCHANGED <<tempVars, illumVars, runVars, extraVars>>

TrackNext == track_mosquito

\* the frames of the two-target scenario, the two detections in one camera
\* (in either order) or one in each
ScenarioFramesFed ==
    UNION { LET a == ScenarioA(i)
                b == ScenarioB
            IN { [left |-> <<a, b>>, right |-> <<>>], [left |-> <<b, a>>, right |-> <<>>],
                 [left |-> <<>>, right |-> <<a, b>>], [left |-> <<>>, right |-> <<b, a>>],
                 [left |-> <<a>>, right |-> <<b>>], [left |-> <<b>>, right |-> <<a>>] }
            : i \in 0..(ScenarioFrames - 1) }

\* one call of track_mosquito on a frame of the scenario
track_scenario ==
    /\ \E d \in FrameSteps :
         /\ trackNow + d <= TrackEpoch + MaxTrackTime
         /\ \E f \in ScenarioFramesFed : TrackMosquito(f, d)
    /\ UNCHANGED <<ctrlVars, portVars, callVars>>
    /\ UNCHANGED <<tempVars, illumVars, runVars, extraVars>>

ScenarioNext == track_scenario

\* the frames fed while the moves fail: nothing, or one detection in the
\* left camera: far off the centre, on it, and on either side of the edge
\* of the dead band
MoveFed ==
    { [left |-> l, right |-> <<>>] :
        l \in { <<>>, <<ScenarioA(0)>>, <<ScenarioA(1)>>, <<Det("C", 500, 300, 9)>>,
                <<Det("M", CAMERA_WIDTH \div 2, CAMERA_HEIGHT \div 2, 7)>>,
                <<Det("N", CAMERA_WIDTH \div 2 + 19, CAMERA_HEIGHT \div 2 - 13, 7)>>,
                <<Det("P", CAMERA_WIDTH \div 2 + 20, CAMERA_HEIGHT \div 2, 7)>> } }

\* one call of track_mosquito, its move_by call ending in any way
track_mosquito_move ==
    /\ \E d \in FrameSteps :
         /\ trackNow + d <= TrackEpoch + MaxTrackTime
         /\ \E f \in MoveFed : \E o \in MoveOutcomes : TrackMosquitoMove(f, d, o)
    /\ UNCHANGED <<ctrlVars, portVars, callVars>>
    /\ UNCHANGED <<tempVars, illumVars, runVars, extraVars>>

MoveNext == track_mosquito_move

(***************************************************************************)
(* MosquitoTracker.run: one pass of the capture loop                       *)
(***************************************************************************)
\* the public methods of PT2DController that act on the pan-tilt head
ControllerMethods ==
    { "move_to", "move_by", "get_position", "read_position", "set_speed",
      "beep", "home", "stop", "set_led", "set_laser" }

\* mosquito_detector.py, line 612: detect returns
\* (detections, result_frame, illumination_info)
DetectReturnLen == 3
\* mosquito_tracker.py, line 408: left_detections, _ = self.detector.detect(...)
UnpackTargets == 2

NoDetect == [called |-> FALSE, paused |-> FALSE, backend |-> FALSE,
             raised |-> FALSE, returned |-> <<>>]

\* what the backend finds in the left camera's frame: nothing, one insect off
\* centre, one insect at the centre of the frame
BackendDetections ==
    { <<>>, <<ScenarioA(0)>>,
      <<Det("D", CAMERA_WIDTH \div 2, CAMERA_HEIGHT \div 2, 7)>> }
\* what the backend does with a frame: it finds detections, or it raises
BackendOutcomes ==
    { [ok |-> TRUE, dets |-> d] : d \in BackendDetections }
    \cup { [ok |-> FALSE, dets |-> <<>>] }

\* self.controller.m(...) inside try / except Exception: the call is made
\* when the controller has the method; else the AttributeError is swallowed
CallController(calls, m) ==
    IF m \in ControllerMethods THEN Append(calls, m) ELSE calls

\* lines 450-458: get_position when the cached position is too old
PositionCall(calls, due) ==
    IF due THEN CallController(calls, "get_position") ELSE calls

\* a faulty variant of DetectionRuns: detection runs whatever the temperature
DetectionRunsAlways(paused) == TRUE

\* line 394: if temp_paused ... else (detection)
DetectionRuns(paused) == ~paused

\* check_temperature, whichever way it answers
CheckTemperature ==
    \/ CheckTemperatureCached
    \/ CheckTemperatureUnavailable
    \/ CheckTemperatureSampled

\* check_illumination_status, whichever way it answers
CheckIlluminationStatus ==
    \/ CheckIlluminationDisabled
    \/ CheckIlluminationCached
    \/ CheckIlluminationSampled

\* MosquitoDetector.detect, lines 585-628, on a frame with which the backend
\* does b: after the illumination check it returns at once when paused, else
\* runs the backend.  The handlers of lines 614-628 call
\* check_illumination_status again, within the interval.
Detect(b) ==
    /\ CheckIlluminationStatus
    /\ LET paused == enable_illumination_monitoring /\ illumination_paused'
       IN detectOut' = [called |-> TRUE,
                        paused |-> paused,
                        backend |-> ~paused,
                        raised |-> ~paused /\ ~b.ok,
                        returned |-> IF paused \/ ~b.ok THEN <<>> ELSE b.dets]

\* lines 394-404: the pass while the temperature is too high
RunPaused(calls, due) ==
    /\ runCalls' = PositionCall(CallController(calls, "laser_off"), due)
    /\ UNCHANGED <<illumVars, lockVars, trackVars, detectOut>>

\* lines 405-432: the pass with detection.  The value detect returns is
\* unpacked into the targets of line 408; track_mosquito is in the else of
\* that try (lines 415-432, with the right camera's detect of line 409),
\* reached only when the unpacking raises nothing.
RunDetect(calls, b, due) ==
    /\ Detect(b)
    /\ IF DetectReturnLen = UnpackTargets
         THEN /\ TrackMosquito([left |-> detectOut'.returned, right |-> <<>>], 0)
              /\ runCalls' = PositionCall(
                     IF moveReq'.asked
                       THEN CallController(calls \o <<"detect", "track_mosquito">>, "move_by")
                       ELSE calls \o <<"detect", "track_mosquito">>, due)
         ELSE /\ runCalls' = PositionCall(Append(calls, "detect"), due)
              /\ UNCHANGED <<lockVars, trackVars>>

\* lines 375-378: camera.read() gave no frame, the pass ends there
RunNoFrame ==
    /\ runCalls' = <<"read_failed">>
    /\ UNCHANGED <<temp_paused, detectOut>>
    /\ UNCHANGED <<tempVars, illumVars, lockVars, trackVars>>

\* lines 380-458: the pass on a frame
RunFrame ==
    /\ IF temperature_monitor
         THEN CheckTemperature /\ temp_paused' = is_paused'
         ELSE UNCHANGED tempVars /\ temp_paused' = FALSE
    /\ \E due \in BOOLEAN :
         /\ runFrames = 0 => due
         /\ LET calls == IF temperature_monitor
                           THEN <<"read", "check_temperature">> ELSE <<"read">>
            IN IF DetectionRuns(temp_paused')
                 THEN \E b \in BackendOutcomes : RunDetect(calls, b, due)
                 ELSE RunPaused(calls, due)

\* one pass of the while loop of run
run ==
    /\ runFrames < MaxFrames
    /\ runFrames' = runFrames + 1
    /\ \E ret \in BOOLEAN : IF ret THEN RunFrame ELSE RunNoFrame
    /\ UNCHANGED temperature_monitor
    /\ UNCHANGED <<ctrlVars, portVars, callVars, extraVars>>

RunNext == run

(***************************************************************************)
(* StreamingTrackingSystem._update_unique_targets                          *)
(***************************************************************************)
\* streaming_tracking_system.py, lines 104-105
TRACK_DISTANCE_THRESHOLD == 100
TRACK_LOST_FRAMES_MAX == 30
\* config_loader.py, line 185
MAX_MOVEMENT_PX_PER_FRAME == 150

\* the empty dict
NoTracks == [i \in {} |-> 0]
Centre(px, py) == [x |-> px, y |-> py]
NewTrack(c) == [center |-> c, lost_frames |-> 0]

\* where detections are seen: along a line, 60 pixels apart
UniquePlaces == { Centre(0, 0), Centre(60, 0), Centre(120, 0) }
\* the detection lists given to an update: one detection, or two in order
UniqueFed ==
    { <<c>> : c \in UniquePlaces }
    \cup UNION { { <<c, e>> : e \in (UniquePlaces \ {c}) } : c \in UniquePlaces }

\* lines 368-369: every track is one frame older
AgeAll(tr) == [i \in DOMAIN tr |-> [tr[i] EXCEPT !.lost_frames = @ + 1]]

\* a faulty variant of MatchTrack: no track is ever matched
MatchTrackNever(tr, c) == 0

\* lines 373-382: the live track nearest to the centre c, when nearer than
\* the distance threshold (0 for None); the dict is walked in insertion
\* order, which is the order of the ids, and a track is taken only when
\* strictly nearer than the best so far
MatchTrack(tr, c) ==
    LET live == { i \in DOMAIN tr :
                    /\ tr[i].lost_frames <= TRACK_LOST_FRAMES_MAX
                    /\ Dist2(c, tr[i].center)
                         < TRACK_DISTANCE_THRESHOLD * TRACK_DISTANCE_THRESHOLD }
    IN IF live = {} THEN 0
       ELSE CHOOSE i \in live :
              \A j \in live :
                 \/ Dist2(c, tr[i].center) < Dist2(c, tr[j].center)
                 \/ Dist2(c, tr[i].center) = Dist2(c, tr[j].center) /\ i <= j

\* lines 371-397 for one detection, on st = [tracks, next, ids]
AssignOne(st, c) ==
    LET m == MatchTrack(st.tracks, c) IN
    IF m # 0
      THEN [tracks |-> [st.tracks EXCEPT ![m] = NewTrack(c)],
            next |-> st.next,
            ids |-> Append(st.ids, m)]
      ELSE [tracks |-> [i \in DOMAIN st.tracks \cup {st.next} |->
                           IF i = st.next THEN NewTrack(c) ELSE st.tracks[i]],
            next |-> st.next + 1,
            ids |-> Append(st.ids, st.next)]

\* lines 371-397: the detections in order
RECURSIVE AssignAll(_, _)
AssignAll(st, dets) ==
    IF dets = <<>> THEN st
    ELSE AssignAll(AssignOne(st, Head(dets)), Tail(dets))

\* a faulty variant of Expired: no track is ever deleted
ExpiredNone(tr) == {}

\* lines 399-402: the tracks to remove
Expired(tr) == { i \in DOMAIN tr : tr[i].lost_frames > TRACK_LOST_FRAMES_MAX }

\* lines 403-406: the dicts without the removed tracks
Without(f, ids) == [i \in (DOMAIN f) \ ids |-> f[i]]

\* the history of a one-object sequence: -1 once a frame had two detections
\* or a move of at least limit pixels, else the moves made so far, up to 2
WalkAfter(walk, dets, step2, limit) ==
    IF walk < 0 \/ Len(dets) # 1 \/ step2 >= limit * limit THEN -1
    ELSE IF step2 > 0 THEN Min2(walk + 1, 2)
    ELSE walk

\* the track ids _update_unique_targets gives to the detections
AssignedBy(dets) ==
    AssignAll([tracks |-> AgeAll(active_tracks),
               next |-> next_track_id, ids |-> <<>>], dets).ids

\* detection_history after the deletions of lines 403-406
PurgedHistory(dets) ==
    LET st == AssignAll([tracks |-> AgeAll(active_tracks),
                         next |-> next_track_id, ids |-> <<>>], dets)
    IN  Without(detection_history, Expired(st.tracks))

\* _update_unique_targets(detections): what it does to the tracks, with hist
\* the detection_history the caller is left with
UpdateTracks(dets, hist) ==
    LET st == AssignAll([tracks |-> AgeAll(active_tracks),
                         next |-> next_track_id, ids |-> <<>>], dets)
        gone == Expired(st.tracks)
        step2 == IF updDets = <<>> THEN 0 ELSE Dist2(dets[1], updDets[1])
    IN
    /\ st.next <= MaxTrackId + 1
    /\ active_tracks' = Without(st.tracks, gone)
    /\ next_track_id' = st.next
    /\ detection_history' = hist
    /\ assigned' = st.ids
    /\ updDets' = dets
    /\ removed' = removed \cup gone
    /\ walkSlow' = WalkAfter(walkSlow, dets, step2, MAX_MOVEMENT_PX_PER_FRAME)
    /\ walkNear' = WalkAfter(walkNear, dets, step2, TRACK_DISTANCE_THRESHOLD)

\* _update_unique_targets(detections) on its own
UpdateUniqueTargets(dets) == UpdateTracks(dets, PurgedHistory(dets))

\* one call of _update_unique_targets, made with a non-empty list (line 286)
update_unique_targets ==
    /\ \E dets \in UniqueFed : UpdateUniqueTargets(dets)
    /\ UNCHANGED <<baseVars, tileVars, nmsVars, streamVars, probeVars>>

UniqueNext == update_unique_targets


(***************************************************************************)
(* MosquitoDetector._detect_tiled: the windows slid over the frame         *)
(* (mosquito_detector.py, lines 676-723)                                   *)
(***************************************************************************)
\* tile_overlap values, in hundredths: the clamp of line 134 keeps it within
\* 0 .. 0.5, and these are exact in binary floating point
TileOverlaps == {0, 25, 50}

\* list(range(0, stop, step)) for stop >= 1
RangeList(stop, step) ==
    [k \in 1..((stop + step - 1) \div step) |-> (k - 1) * step]

\* stride = max(1, int(tile * (1.0 - self.tile_overlap)))
Stride(tile, overlap) == Max2(1, (tile * (100 - overlap)) \div 100)

\* faulty variant: the origins of the range alone
TileStartsRangeOnly(len, tile, stride) ==
    RangeList(Max2(1, len - tile + 1), stride)

\* xs (or ys): the range, then the origin of the window that ends at the edge
TileStarts(len, tile, stride) ==
    LET r == RangeList(Max2(1, len - tile + 1), stride)
        last == Max2(0, len - tile)
    IN  IF r[Len(r)] # last THEN Append(r, last) ELSE r

\* the window of origin (x0, y0): columns x0 .. x1-1, rows y0 .. y1-1
TileWindow(x0, y0) ==
    [x0 |-> x0, y0 |-> y0,
     x1 |-> Min2(frameW, x0 + imgsz), y1 |-> Min2(frameH, y0 + imgsz)]

\* the patches cut, for y0 in ys, for x0 in xs
TileWindows ==
    { TileWindow(tileXs[i], tileYs[j]) : i \in 1..Len(tileXs), j \in 1..Len(tileYs) }

detect_tiled ==
    /\ tileXs = <<>>
    /\ tileXs' = TileStarts(frameW, imgsz, Stride(imgsz, tile_overlap))
    /\ tileYs' = TileStarts(frameH, imgsz, Stride(imgsz, tile_overlap))
    /\ UNCHANGED <<frameW, frameH, imgsz, tile_overlap>>
    /\ UNCHANGED <<baseVars, uniqueVars, nmsVars, streamVars, probeVars>>

TileNext == detect_tiled


(***************************************************************************)
(* MosquitoDetector._nms and _iou (mosquito_detector.py, lines 725-772)    *)
(***************************************************************************)
\* iou_threshold in hundredths (config_loader.py, line 112)
IOU_THRESHOLD_PCT == 45

\* a detection: bbox (x, y, w, h) and confidence in hundredths
Box(bx, by, bw, bh, conf) ==
    [x |-> bx, y |-> by, w |-> bw, h |-> bh, confidence |-> conf]

\* the detections merged: boxes of 10 by 10 shifted along a row, so that
\* neighbours 3 apart overlap by 7/13 and boxes 6 apart by 4/16
NmsBoxes == { Box(bx, 0, 10, 10, conf) : bx \in {0, 3, 6, 20}, conf \in {50, 90} }

RECURSIVE ListsUpTo(_, _)
ListsUpTo(S, n) ==
    IF n = 0 THEN { <<>> }
    ELSE LET shorter == ListsUpTo(S, n - 1)
         IN  shorter \cup { Append(l, e) : l \in { q \in shorter : Len(q) = n - 1 }, e \in S }

\* _iou: the intersection and the union of two boxes (x1, y1, x2, y2)
Inter(a, b) ==
    LET inter_w == Max2(0, Min2(a.x + a.w, b.x + b.w) - Max2(a.x, b.x))
        inter_h == Max2(0, Min2(a.y + a.h, b.y + b.h) - Max2(a.y, b.y))
    IN  inter_w * inter_h

Union(a, b) ==
    Max2(0, a.w) * Max2(0, a.h) + Max2(0, b.w) * Max2(0, b.h) - Inter(a, b)

\* self._iou(a, b) > iou_thresh
Overlaps(a, b) ==
    IF Union(a, b) <= 0 THEN FALSE
    ELSE Inter(a, b) * 100 > IOU_THRESHOLD_PCT * Union(a, b)

\* faulty variant: among equal confidences the later box comes first
RankTiesLast(dets, i) ==
    1 + Cardinality({ j \in 1..Len(dets) :
            \/ dets[j].confidence > dets[i].confidence
            \/ dets[j].confidence = dets[i].confidence /\ j > i })

\* the place of detection i after boxes.sort(key=confidence, reverse=True):
\* the sort is stable, so equal confidences stay in the order of the list
Rank(dets, i) ==
    1 + Cardinality({ j \in 1..Len(dets) :
            \/ dets[j].confidence > dets[i].confidence
            \/ dets[j].confidence = dets[i].confidence /\ j < i })

\* the sorted boxes, as places in the list (the idx of the tuples)
Sorted(dets) ==
    [k \in 1..Len(dets) |-> CHOOSE i \in 1..Len(dets) : Rank(dets, i) = k]

\* the loop over the sorted boxes from place i on
RECURSIVE Greedy(_, _, _, _, _)
Greedy(dets, order, i, suppressed, keep) ==
    IF i > Len(order) THEN keep
    ELSE IF i \in suppressed THEN Greedy(dets, order, i + 1, suppressed, keep)
    ELSE Greedy(dets, order, i + 1,
                suppressed \cup { j \in (i + 1)..Len(order) :
                                    /\ j \notin suppressed
                                    /\ Overlaps(dets[order[i]], dets[order[j]]) },
                Append(keep, order[i]))

\* faulty variant: the boxes sorted, none suppressed
KeepSorted(dets) ==
    IF dets = <<>> THEN <<>> ELSE Sorted(dets)

\* the places of the detections kept, in the order kept
Keep(dets) ==
    IF dets = <<>> THEN <<>> ELSE Greedy(dets, Sorted(dets), 1, {}, <<>>)

Nms(dets) == [k \in 1..Len(Keep(dets)) |-> dets[Keep(dets)[k]]]

\* _nms(detections, iou_thresh) on a list of detections
nms ==
    /\ nmsRuns = 0
    /\ nmsKept' = Keep(nmsIn)
    /\ nmsOut' = Nms(nmsIn)
    /\ nmsRuns' = 1
    /\ UNCHANGED nmsIn
    /\ UNCHANGED <<baseVars, uniqueVars, tileVars, streamVars, probeVars>>

\* _nms on the list the call before returned
nms_again ==
    /\ nmsRuns >= 1
    /\ nmsRuns < MaxNmsRuns
    /\ nmsIn' = nmsOut
    /\ nmsKept' = Keep(nmsOut)
    /\ nmsOut' = Nms(nmsOut)
    /\ nmsRuns' = nmsRuns + 1
    /\ UNCHANGED <<baseVars, uniqueVars, tileVars, streamVars, probeVars>>

NmsNext == nms \/ nms_again


(***************************************************************************)
(* StreamingTrackingSystem.process_frame and run                           *)
(* (streaming_tracking_system.py, lines 237-340, 408-500, 516-564)         *)
(***************************************************************************)
\* config_loader.py, lines 153-193 and 128-132; the ratios in hundredths
MIN_BBOX_SIZE_PX == 10
MAX_BBOX_SIZE_PX == 200
MIN_ASPECT_RATIO_PCT == 30
MAX_ASPECT_RATIO_PCT == 300
MIN_CONSECUTIVE_FRAMES == 3
MAX_STATIC_FRAMES == 60
STATIC_THRESHOLD_PX == 5
MIN_MOSQUITO_SIZE_MM == 3
MAX_MOSQUITO_SIZE_MM == 15

\* what estimate_depth_for_detection gives for a detection: None, or a
\* depth_info with its object_size_mm
NoDepth == [known |-> FALSE, object_size_mm |-> 0]
DepthInfo(mm) == [known |-> TRUE, object_size_mm |-> mm]

\* a detection: bbox, center, confidence in hundredths, and the depth the
\* estimator would find for it
SDet(box, c, conf, dp) == [bbox |-> box, center |-> c, confidence |-> conf, depth |-> dp]

\* what the backend finds in a frame: nothing; an insect-sized box at one of
\* two places 60 apart, with depth and size 8 mm, with no depth, or of size
\* 40 mm; a box of 4 by 4 with no depth; a box five times as wide as high;
\* a detection of confidence 1.0; three insect-sized boxes within 60 pixels
StreamDetections ==
    { <<>>,
      <<SDet(<<0, 0, 30, 30>>, Centre(0, 0), 80, NoDepth),
        SDet(<<0, 0, 30, 30>>, Centre(60, 0), 80, NoDepth),
        SDet(<<0, 0, 30, 30>>, Centre(30, 0), 80, NoDepth)>>,
      <<SDet(<<0, 0, 30, 30>>, Centre(0, 0), 80, DepthInfo(8))>>,
      <<SDet(<<0, 0, 30, 30>>, Centre(60, 0), 80, DepthInfo(8))>>,
      <<SDet(<<0, 0, 30, 30>>, Centre(0, 0), 80, NoDepth)>>,
      <<SDet(<<0, 0, 30, 30>>, Centre(0, 0), 80, DepthInfo(40))>>,
      <<SDet(<<0, 0, 4, 4>>, Centre(0, 0), 80, NoDepth)>>,
      <<SDet(<<0, 0, 100, 20>>, Centre(0, 0), 80, NoDepth)>>,
      <<SDet(<<0, 0, 30, 30>>, Centre(0, 0), 100, DepthInfo(8))>> }

\* what the backend does with a frame: it finds detections, or it raises
StreamOutcomes ==
    { [ok |-> TRUE, dets |-> d] : d \in StreamDetections }
    \cup { [ok |-> FALSE, dets |-> <<>>] }

NoStreamOut == [read |-> FALSE, raised |-> FALSE, detected |-> <<>>,
                accepted |-> <<>>, path |-> "none", escaped |-> FALSE,
                stopped |-> FALSE, before |-> NoTracks, filterIn |-> NoTracks]

\* line 282: detections with confidence 1.0 or more are dropped
Plausible(dets) == SelectSeq(dets, LAMBDA d : d.confidence < 100)

Centres(dets) == [k \in 1..Len(dets) |-> dets[k].center]

\* lines 442-451: the size filter, on width = x2 - x1 and height = y2 - y1
SizeOk(det) ==
    LET size == Max2(det.bbox[3] - det.bbox[1], det.bbox[4] - det.bbox[2])
    IN  size >= MIN_BBOX_SIZE_PX /\ size <= MAX_BBOX_SIZE_PX

\* lines 453-457: the aspect filter, on width / max(height, 1)
AspectOk(det) ==
    LET width == det.bbox[3] - det.bbox[1]
        height == Max2(det.bbox[4] - det.bbox[2], 1)
    IN  /\ width * 100 >= MIN_ASPECT_RATIO_PCT * height
        /\ width * 100 <= MAX_ASPECT_RATIO_PCT * height

Put(f, k, v) == [i \in (DOMAIN f) \cup {k} |-> IF i = k THEN v ELSE f[i]]

\* lines 461-471: the history of the track after this detection
Seen(hist, tid, c) ==
    IF tid \notin DOMAIN hist
      THEN Put(hist, tid, [frames |-> 1, positions |-> <<c>>, static_frames |-> 0])
      ELSE [hist EXCEPT ![tid] = [frames |-> @.frames + 1,
                                  positions |-> Append(@.positions, c),
                                  static_frames |-> @.static_frames]]

\* lines 477-496: the motion filter on a track whose history is h
MotionOne(acc, h, det, tid) ==
    LET pos == h[tid].positions
        keep == [hist |-> h, valid |-> Append(acc.valid, det)]
        drop == [hist |-> h, valid |-> acc.valid]
    IN  IF Len(pos) < 2 THEN keep
        ELSE LET m2 == Dist2(det.center, pos[Len(pos) - 1])
                 still == [h EXCEPT ![tid].static_frames = @ + 1]
                 moved == [h EXCEPT ![tid].static_frames = 0]
             IN  IF m2 > MAX_MOVEMENT_PX_PER_FRAME * MAX_MOVEMENT_PX_PER_FRAME THEN drop
                 ELSE IF m2 < STATIC_THRESHOLD_PX * STATIC_THRESHOLD_PX
                   THEN IF still[tid].static_frames > MAX_STATIC_FRAMES
                          THEN [hist |-> still, valid |-> acc.valid]
                          ELSE [hist |-> still, valid |-> Append(acc.valid, det)]
                 ELSE [hist |-> moved, valid |-> Append(acc.valid, det)]

\* faulty variant: a detection of the wrong size or shape costs the track
\* its history
MonoOneForgets(acc, det, tid) ==
    IF ~SizeOk(det) \/ ~AspectOk(det)
      THEN [hist |-> Without(acc.hist, {tid}), valid |-> acc.valid]
    ELSE LET h == Seen(acc.hist, tid, det.center)
         IN  IF h[tid].frames < MIN_CONSECUTIVE_FRAMES
               THEN [hist |-> h, valid |-> acc.valid]
               ELSE MotionOne(acc, h, det, tid)

\* lines 438-498: _apply_monocular_filters on one detection of track tid
MonoOne(acc, det, tid) ==
    IF ~SizeOk(det) \/ ~AspectOk(det) THEN acc
    ELSE LET h == Seen(acc.hist, tid, det.center)
         IN  IF h[tid].frames < MIN_CONSECUTIVE_FRAMES
               THEN [hist |-> h, valid |-> acc.valid]
               ELSE MotionOne(acc, h, det, tid)

RECURSIVE MonoAll(_, _, _)
MonoAll(acc, dets, ids) ==
    IF dets = <<>> THEN acc
    ELSE MonoAll(MonoOne(acc, Head(dets), Head(ids)), Tail(dets), Tail(ids))

\* lines 297-301: a detection with depth is kept when its size is a mosquito's
DepthSizeOk(det) ==
    /\ det.depth.object_size_mm >= MIN_MOSQUITO_SIZE_MM
    /\ det.depth.object_size_mm <= MAX_MOSQUITO_SIZE_MM

\* faulty variant: a detection without depth is dropped
DepthOneStrict(det) == det.depth.known /\ DepthSizeOk(det)

\* lines 291-305: the dual-camera branch keeps a detection that has no depth
DepthOne(det) == ~det.depth.known \/ DepthSizeOk(det)

\* faulty variant: a failure of the backend leaves process_frame
EscapesOnFailure(cfg, raised, accepted) ==
    raised \/ (cfg.tracker /\ accepted # <<>>)

\* an exception leaves process_frame: detect catches what the backend raises
\* (mosquito_detector.py, lines 614-628); self.tracker.update at line 315 is
\* a method MosquitoTracker does not have
Escapes(cfg, raised, accepted) ==
    cfg.tracker /\ accepted # <<>>

\* process_frame on a frame with which the backend does b
ProcessFrame(b) ==
    /\ Detect(b)
    /\ LET detected == Plausible(detectOut'.returned)
           depthPath == streamCfg.dual_camera /\ streamCfg.enable_depth
           ids == AssignedBy(Centres(detected))
           purged == PurgedHistory(Centres(detected))
           mono == MonoAll([hist |-> purged, valid |-> <<>>], detected, ids)
           accepted == IF detected = <<>> THEN <<>>
                       ELSE IF depthPath THEN SelectSeq(detected, DepthOne)
                       ELSE mono.valid
           escaped == Escapes(streamCfg, detectOut'.raised, accepted)
       IN /\ IF detected = <<>> THEN UNCHANGED uniqueVars
             ELSE UpdateTracks(Centres(detected), IF depthPath THEN purged ELSE mono.hist)
          /\ streamOut' = [read |-> TRUE, raised |-> detectOut'.raised,
                           detected |-> detected, accepted |-> accepted,
                           path |-> IF detected = <<>> THEN "none"
                                    ELSE IF depthPath THEN "depth" ELSE "mono",
                           escaped |-> escaped, stopped |-> FALSE,
                           before |-> active_tracks,
                           filterIn |-> IF detected = <<>> THEN NoTracks ELSE purged]
          /\ streamRunning' = ~escaped

\* lines 532-535: cap.read() gave no frame, the loop is left
StreamNoFrame ==
    /\ streamOut' = NoStreamOut
    /\ streamRunning' = FALSE
    /\ UNCHANGED <<illumVars, detectOut, uniqueVars>>

\* one pass of the while loop of run
stream_pass ==
    /\ streamRunning
    /\ streamFrames < MaxStreamFrames
    /\ streamFrames' = streamFrames + 1
    /\ \/ StreamNoFrame
       \/ \E b \in StreamOutcomes : ProcessFrame(b)
    /\ UNCHANGED <<streamCfg, temperature_monitor, temp_paused, runCalls, runFrames>>
    /\ UNCHANGED <<linkVars, tempVars, lockVars, tileVars, nmsVars, probeVars>>

\* stop() between two passes
stream_stop ==
    /\ streamRunning
    /\ streamRunning' = FALSE
    /\ streamOut' = [streamOut EXCEPT !.stopped = TRUE]
    /\ UNCHANGED <<streamCfg, streamFrames>>
    /\ UNCHANGED <<baseVars, uniqueVars, tileVars, nmsVars, probeVars>>

StreamNext == stream_pass \/ stream_stop


(***************************************************************************)
(* The size filter of _apply_monocular_filters on the boxes the detector   *)
(* produces (mosquito_detector.py, lines 912-936)                          *)
(***************************************************************************)
NoVerdict == [done |-> FALSE, accepted |-> FALSE, size |-> 0]

\* _parse_yolo_output: 'bbox': (x1, y1, w, h), the corner and the sides
ParsedBoxes ==
    { <<x1, y1, w, h>> : x1 \in {0, 300}, y1 \in {0, 200},
                          w \in {4, 10, 40, 200, 201}, h \in {4, 10, 40, 200, 201} }

\* the size filter on one detection
size_filter ==
    /\ ~verdict.done
    /\ verdict' = [done |-> TRUE, accepted |-> SizeOk(probe),
                   size |-> Max2(probe.bbox[3] - probe.bbox[1],
                                 probe.bbox[4] - probe.bbox[2])]
    /\ UNCHANGED probe
    /\ UNCHANGED <<baseVars, uniqueVars, tileVars, nmsVars, streamVars>>

SizeNext == size_filter

(***************************************************************************)
(* The physical size of a detection (depth_estimator.py) and the filter on *)
(* it (streaming_tracking_system.py, lines 289-305)                        *)
(***************************************************************************)
\* depth_estimator.py, line 59: focal_length * image_width / sensor_width,
\* 3.0 * 1920 / 5.0 with the defaults
FOCAL_LENGTH_PX == 1152
\* config_loader.py: depth_baseline, in millimetres
DEPTH_BASELINE == 120

\* the median disparities of the window: none that is valid, or one below
\* num_disparities (64) that divides focal_length_px * baseline
Disparities == {0, 15, 30, 60, 64}

\* estimate_depth_at_point and estimate_depth: None without a positive
\* disparity, else f * B / d millimetres, returned in metres; the model keeps
\* the metres as a count of thousandths
estimate_depth(disparity) ==
    IF disparity <= 0 THEN [known |-> FALSE, milli |-> 0]
    ELSE [known |-> TRUE, milli |-> (FOCAL_LENGTH_PX * DEPTH_BASELINE) \div disparity]

\* estimate_depth_for_detection, lines 233-270: object_size_mm is
\* max(width, height) * depth * 10000 / focal_length_px with depth in metres;
\* the model keeps object_size_mm * focal_length_px, which is a whole number
estimate_depth_for_detection(bbox, disparity) ==
    LET depth == estimate_depth(disparity)
        bbox_width_px == bbox[3] - bbox[1]
        bbox_height_px == bbox[4] - bbox[2]
    IN  [known |-> depth.known,
         size_by_focal |-> Max2(bbox_width_px * depth.milli * 10,
                                bbox_height_px * depth.milli * 10)]

\* the boxes and disparities the depth filter is given
DepthProbes ==
    { [bbox |-> <<x1, 0, w, h>>, disparity |-> d] :
        x1 \in {0, 5}, w \in {5, 10, 40}, h \in {5, 10, 40}, d \in Disparities }

\* process_frame, lines 291-303, on one detection
depth_filter ==
    /\ ~verdict.done
    /\ \E info \in { estimate_depth_for_detection(probe.bbox, probe.disparity) } :
         verdict' = [done |-> TRUE,
                     accepted |-> \/ ~info.known
                                  \/ /\ MIN_MOSQUITO_SIZE_MM * FOCAL_LENGTH_PX <= info.size_by_focal
                                     /\ info.size_by_focal <= MAX_MOSQUITO_SIZE_MM * FOCAL_LENGTH_PX,
                     size |-> info.size_by_focal]
    /\ UNCHANGED probe
    /\ UNCHANGED <<baseVars, uniqueVars, tileVars, nmsVars, streamVars>>

DepthNext == depth_filter

\* a detection of the frame and the disparity found at its centre
DepthInit == probe \in DepthProbes /\ verdict = NoVerdict

(***************************************************************************)
(* Initial states                                                          *)
(***************************************************************************)
\* PT2DController.__init__ up to line 53, with no call in progress
CallInit ==
    /\ pc = [t \in Threads |-> "idle"]
    /\ op = [t \in Threads |-> ""]
    /\ arg = [t \in Threads |-> <<0, 0>>]
    /\ retry = [t \in Threads |-> 0]
    /\ attempt = [t \in Threads |-> 0]
    /\ cmd = [t \in Threads |-> NoCmd]
    /\ elapsed = [t \in Threads |-> 0]
    /\ result = [t \in Threads |-> NoDict]
    /\ cur = [t \in Threads |-> NoPos]
    /\ stage = [t \in Threads |-> ""]
    /\ clog = [t \in Threads |-> <<>>]
    /\ firstJson = [t \in Threads |-> NoLine]
    /\ skipped = [t \in Threads |-> 0]
    /\ waited = [t \in Threads |-> 0]
    /\ writes = [t \in Threads |-> 0]

LinkInit ==
    /\ phase = "init"
    /\ is_connected = FALSE
    /\ servo_enabled = FALSE
    /\ limits = DefaultLimits
    /\ startupCount = 0
    /\ sawFullOk = FALSE
    /\ devLimits \in DeviceLimitChoices
    /\ inbuf = <<>>
    /\ pending = FALSE
    /\ pendingFor = ""
    /\ CallInit
    /\ tracking_active = FALSE

\* TemperatureMonitor.__init__, lines 67-70.  The clock is time.time(): it
\* starts at least one check interval after 0.0, the initial last_check_time.
TempInit ==
    /\ is_paused = FALSE
    /\ warning_shown = FALSE
    /\ last_temperature = 0
    /\ last_check_time = 0
    /\ now = TEMPERATURE_CHECK_INTERVAL
    /\ tempStatus = ""
    /\ tempPauses = 0
    /\ tempLow = FALSE
    /\ tempLowSincePause = FALSE

\* MosquitoDetector.__init__, lines 179-186
IllumInit ==
    /\ enable_illumination_monitoring \in BOOLEAN
    /\ illumination_paused = FALSE
    /\ last_illumination_status = "ok"
    /\ current_illumination = 0
    /\ last_illumination_check = 0
    /\ illumNow = ILLUMINATION_CHECK_INTERVAL
    /\ illumPauses = 0
    /\ illumNear = TRUE

\* the state of the other components while one component is checked
LinkParked ==
    /\ phase = "init"
    /\ is_connected = FALSE
    /\ servo_enabled = FALSE
    /\ limits = DefaultLimits
    /\ startupCount = 0
    /\ sawFullOk = FALSE
    /\ devLimits = DefaultLimits
    /\ inbuf = <<>>
    /\ pending = FALSE
    /\ pendingFor = Untraced
    /\ CallInit
    /\ tracking_active = FALSE

IllumParked == IllumInit /\ enable_illumination_monitoring

\* MosquitoTracker.__init__, lines 82-99.  The clock is time.time(): far
\* from 0, the initial last_detection_time and last_beep_time.
TrackerInit ==
    /\ locked_target_position = NoTarget
    /\ last_detection_time = 0
    /\ last_beep_time = 0
    /\ trackNow = TrackEpoch
    /\ frame = NoFrame
    /\ pre = NoPre
    /\ selected = NoDet
    /\ spawned = NoThreads
    /\ moveReq = NoMove
    /\ moveDone = NoMoveDone
    /\ scen = 0
    /\ locks = 0
    /\ alerts = 0

\* MosquitoTracker.run before its first pass
RunInit ==
    /\ temperature_monitor \in BOOLEAN
    /\ temp_paused = FALSE
    /\ runCalls = <<>>
    /\ runFrames = 0
    /\ detectOut = NoDetect

RunParked == RunInit /\ temperature_monitor

\* StreamingTrackingSystem.__init__, lines 101-109
UniqueInit ==
    /\ active_tracks = NoTracks
    /\ next_track_id = 1
    /\ detection_history = NoTracks
    /\ assigned = <<>>
    /\ updDets = <<>>
    /\ removed = {}
    /\ walkSlow = 0
    /\ walkNear = 0

\* a detector with a frame to tile
TileInit ==
    /\ frameW \in 1..MaxSide
    /\ frameH \in 1..MaxSide
    /\ imgsz \in 1..MaxTile
    /\ tile_overlap \in TileOverlaps
    /\ tileXs = <<>>
    /\ tileYs = <<>>

\* no tiling under way
TileParked ==
    /\ frameW = 1
    /\ frameH = 1
    /\ imgsz = 1
    /\ tile_overlap = 0
    /\ tileXs = <<>>
    /\ tileYs = <<>>

\* a list of detections to merge
NmsInit ==
    /\ nmsIn \in ListsUpTo(NmsBoxes, MaxBoxes)
    /\ nmsKept = <<>>
    /\ nmsOut = <<>>
    /\ nmsRuns = 0

\* no merge under way
NmsParked ==
    /\ nmsIn = <<>>
    /\ nmsKept = <<>>
    /\ nmsOut = <<>>
    /\ nmsRuns = 0

\* StreamingTrackingSystem.__init__: depth estimation needs both cameras
\* (line 81); the tracker is None when the controller did not connect
StreamInit ==
    /\ streamCfg \in { [dual_camera |-> dc, enable_depth |-> ed /\ dc, tracker |-> tr] :
                         dc \in BOOLEAN, ed \in BOOLEAN, tr \in BOOLEAN }
    /\ streamRunning = TRUE
    /\ streamFrames = 0
    /\ streamOut = NoStreamOut

\* no streaming loop under way
StreamParked ==
    /\ streamCfg = [dual_camera |-> FALSE, enable_depth |-> FALSE, tracker |-> FALSE]
    /\ streamRunning = FALSE
    /\ streamFrames = 0
    /\ streamOut = NoStreamOut

\* a detection as the detector makes it
SizeInit ==
    /\ probe \in { SDet(b, Centre(b[1] + b[3] \div 2, b[2] + b[4] \div 2), 80, NoDepth) :
                     b \in ParsedBoxes }
    /\ verdict = NoVerdict

\* no filter under test
ProbeParked ==
    /\ probe = SDet(<<0, 0, 0, 0>>, Centre(0, 0), 0, NoDepth)
    /\ verdict = NoVerdict

ExtraInit == UniqueInit /\ TileParked /\ NmsParked /\ StreamParked /\ ProbeParked

RestInit == TrackerInit /\ RunParked /\ ExtraInit

(***************************************************************************)
(* The actuator link used by one caller                                    *)
(***************************************************************************)
Caller == "capture"

LinkNext ==
    \/ Open
    \/ StartupRead
    \/ StartupDone
    \/ DeviceNoise
    \/ DeviceReply
    \/ \E rq \in RequestPairs : move_to(Caller, rq[1], rq[2])
    \/ \E rq \in RequestPairs : move_by(Caller, rq[1], rq[2])
    \/ get_position(Caller)
    \/ \E n \in 0..MaxRetry : send_direct(Caller, n)
    \/ send_command(Caller)
    \/ FlushInput(Caller)
    \/ Write(Caller)
    \/ ReadPass(Caller)
    \/ ReadSleep(Caller)
    \/ ReadTimedOut(Caller)
    \/ SerialRaises(Caller)
    \/ Return(Caller)
    \/ Finish(Caller)

InitLink == LinkInit /\ TempInit /\ IllumParked /\ RestInit

SpecLink == InitLink /\ [][LinkNext]_vars

(***************************************************************************)
(* Properties of the actuator link (checked under SpecLink)                *)
(***************************************************************************)
Written(t, o) == { i \in 1..Len(clog[t]) : clog[t][i].op = o }
InPanRange(x)  == limits.pan_min <= x /\ x <= limits.pan_max
InTiltRange(x) == limits.tilt_min <= x /\ x <= limits.tilt_max
\* the position query of a move_by ended and its last attempt read no
\* response carrying both 'pan' and 'tilt'
YieldedPosition(t) == firstJson[t].kind = "json" /\ firstJson[t].fields = "both"
SendErrors == {"Not connected", "Max retries exceeded", "No response received",
               "Failed to parse JSON", "io error"}

\* C1: every MOVE command that move_to writes carries a pan within
\* [pan_min, pan_max] and a tilt within [tilt_min, tilt_max], whatever angles
\* were asked for, and these limits are the ones the device advertised.
C1_MoveToClamped ==
    \A t \in Threads : \A i \in Written(t, "MOVE") :
        /\ InPanRange(clog[t][i].a)
        /\ InTiltRange(clog[t][i].b)
        /\ limits = devLimits

\* a MOVE was written for a request below the pan range and above the tilt range
C1_Witness ==
    \E t \in Threads :
        /\ op[t] = "move_to" /\ Written(t, "MOVE") # {}
        /\ arg[t][1] < limits.pan_min /\ arg[t][2] > limits.tilt_max
        /\ clog[t][1].a = limits.pan_min /\ clog[t][1].b = limits.tilt_max

\* C2: for every MOVER command that move_by writes, the position the device
\* reported plus the delta sent lies within the device's limits on both axes.
C2_MoveByWithinLimits ==
    \A t \in Threads : \A i \in Written(t, "MOVER") :
        /\ cur[t].known
        /\ InPanRange(cur[t].pan + clog[t][i].a)
        /\ InTiltRange(cur[t].tilt + clog[t][i].b)

\* C3: move_by starts with a position query; when the query yields no pan and
\* tilt, move_by returns an error and writes no MOVER command.
C3_NoPositionNoMover ==
    \A t \in Threads :
        /\ Written(t, "MOVER") # {} => (Len(clog[t]) >= 2 /\ clog[t][1].op = "POS")
        /\ (op[t] = "move_by" /\ stage[t] = "mover"
              /\ pc[t] \in {"sc_enter", "sc_flush", "sc_write"}) => YieldedPosition(t)
        /\ (op[t] = "move_by" /\ stage[t] = "pos" /\ pc[t] = "done"
              /\ ~YieldedPosition(t))
             => (result[t].error # "" /\ Written(t, "MOVER") = {})

\* a move_by ended with an error after a reply that had 'pan' but no 'tilt'
C3_Witness ==
    \E t \in Threads :
        /\ op[t] = "move_by" /\ pc[t] = "done" /\ stage[t] = "pos"
        /\ firstJson[t].kind = "json" /\ firstJson[t].fields = "pan"
        /\ result[t].error = "Cannot get current position"
        /\ Len(clog[t]) = 1

\* C5: a send_command(cmd, retry = N) call writes its command at most N times,
\* waits at most the read timeout per attempt, can always take a next step
\* while it is running, and returns a parsed response or an error value.
C5_SendBounded ==
    \A t \in Threads :
        /\ writes[t] <= Max2(retry[t], 0)
        /\ attempt[t] < Max2(retry[t], 1)
        /\ waited[t] <= writes[t] * ReadTimeout
        /\ elapsed[t] <= ReadTimeout
        /\ pc[t] \in {"sc_enter", "sc_flush", "sc_write", "sc_read"}
             => ENABLED (\/ send_command(t) \/ FlushInput(t) \/ Write(t)
                         \/ ReadPass(t) \/ ReadSleep(t) \/ ReadTimedOut(t))
        /\ pc[t] = "sc_ret"
             => \/ result[t].error \in SendErrors
                \/ (result[t].error = "" /\ firstJson[t].kind = "json")

\* a call with retry = MaxRetry used every attempt, waited the full time on
\* each while the device sent noise, and returned the error value
C5_Witness ==
    \E t \in Threads :
        /\ pc[t] = "sc_ret" /\ retry[t] = MaxRetry /\ writes[t] = MaxRetry
        /\ waited[t] = MaxRetry * ReadTimeout
        /\ skipped[t] > 0
        /\ result[t].error = "No response received"

\* C6: a JSON response with status error ends send_command at that attempt;
\* the command is written again only after an attempt that read no JSON line
\* or raised.
C6_ErrorResponseNotRetried ==
    \A t \in Threads :
        /\ (pc[t] \in {"sc_flush", "sc_write"} /\ attempt[t] > 0)
             => firstJson[t] = NoLine
        /\ writes[t] <= attempt[t] + 1
        /\ (pc[t] = "sc_ret" /\ writes[t] > 0 /\ firstJson[t].kind = "json"
              /\ firstJson[t].status = "error")
             => (result[t] = Loads(firstJson[t]) /\ result[t].status = "error")

\* an error response to the first attempt was returned with a retry left
C6_Witness ==
    \E t \in Threads :
        /\ pc[t] = "sc_ret" /\ retry[t] = MaxRetry /\ attempt[t] = 0
        /\ writes[t] = 1 /\ result[t].status = "error" /\ result[t].error = ""

\* C7: lines that do not parse are skipped without failing the read, and the
\* value returned is the first JSON-parseable line read after the write.
C7_FirstJsonReturned ==
    \A t \in Threads :
        /\ pc[t] = "sc_read" => firstJson[t] = NoLine
        /\ (pc[t] = "sc_ret" /\ writes[t] > 0) =>
              IF firstJson[t] # NoLine
                THEN result[t] = Loads(firstJson[t])
                ELSE result[t].error \in {"No response received", "io error"}

\* a noise line was skipped and the JSON line after it was returned
C7_Witness ==
    \E t \in Threads :
        /\ pc[t] = "sc_ret" /\ skipped[t] > 0 /\ firstJson[t].kind = "json"
        /\ result[t] = Loads(firstJson[t]) /\ result[t].fields = "both"

\* C8: no MOVE or MOVER is written unless a startup line with all four limits
\* and status ok was read and its limits stored; without one, servo control is
\* disabled, is_connected is false and both calls return an error with no
\* serial I/O.
C8_NoMoveWithoutLimits ==
    /\ \A t \in Threads :
          (Written(t, "MOVE") # {} \/ Written(t, "MOVER") # {})
             => (sawFullOk /\ limits = devLimits)
    /\ ~sawFullOk =>
          /\ ~servo_enabled
          /\ ~is_connected
          /\ \A t \in Threads : op[t] \in {"move_to", "move_by"} =>
                /\ pc[t] = "done"
                /\ clog[t] = <<>>
                /\ result[t].error # ""

\* a move was refused after startup lines that carried the limits without
\* status ok
C8_Witness ==
    \E t \in Threads :
        /\ ~sawFullOk /\ limits = devLimits /\ limits # DefaultLimits
        /\ op[t] = "move_by" /\ pc[t] = "done" /\ result[t].error # ""

(***************************************************************************)
(* MosquitoTracker: the capture loop and the threads it starts             *)
(***************************************************************************)
\* angle deltas calculate_target_angles may give for a detection off centre
TrackDeltas == { <<100, -400>> }

\* threading.Thread(target = ...).start(): thread t begins its target, which
\* is one send_command(c) with the default retry = 1
ThreadStart(f, t, fld, v) == [f EXCEPT ![t] = v[fld]]
Target(o, c) == [pc |-> "sc_enter", op |-> o, cmd |-> c, retry |-> 1]

\* track_mosquito, lines 297-319: a detection.  When no target was tracked the
\* target is locked and, past the beep cooldown, _beep_async is started in a
\* thread of its own; then the capture loop itself calls move_by.
track_detected(pan_delta, tilt_delta, beep) ==
    LET tg == Target("beep", Cmd("BEEP", 0, 0))
        started(f, fld) == IF beep THEN ThreadStart(f, "beep", fld, tg) ELSE f
    IN
    /\ phase = "ready"
    /\ pc["capture"] = "idle"
    /\ beep => (~tracking_active /\ pc["beep"] = "idle")
    /\ tracking_active' = TRUE
    /\ IF servo_enabled
         THEN /\ pc' = Upd(started(pc, "pc"), "capture", "sc_enter")
              /\ cmd' = Upd(started(cmd, "cmd"), "capture", Cmd("POS", 0, 0))
              /\ retry' = Upd(started(retry, "retry"), "capture", 1)
              /\ stage' = Upd(stage, "capture", "pos")
              /\ UNCHANGED result
         ELSE /\ pc' = Upd(started(pc, "pc"), "capture", "done")
              /\ cmd' = started(cmd, "cmd")
              /\ retry' = started(retry, "retry")
              /\ result' = Upd(result, "capture", ErrDict("Servo control is disabled"))
              /\ UNCHANGED stage
    /\ op' = Upd(started(op, "op"), "capture", "move_by")
    /\ arg' = Upd(arg, "capture", <<pan_delta, tilt_delta>>)
    /\ UNCHANGED <<attempt, elapsed, cur, clog, firstJson, skipped, waited, writes>>
    /\ UNCHANGED <<ctrlVars, portVars>>
    /\ UNCHANGED nonLinkVars

\* track_mosquito, lines 336-348: no detection for longer than
\* no_detection_timeout; _home_async is started in a thread of its own
track_lost ==
    LET tg == Target("home", Cmd("HOME", 0, 0)) IN
    /\ phase = "ready"
    /\ pc["capture"] = "idle"
    /\ tracking_active
    /\ pc["home"] = "idle"
    /\ tracking_active' = FALSE
    /\ pc' = ThreadStart(pc, "home", "pc", tg)
    /\ op' = ThreadStart(op, "home", "op", tg)
    /\ cmd' = ThreadStart(cmd, "home", "cmd", tg)
    /\ retry' = ThreadStart(retry, "home", "retry", tg)
    /\ UNCHANGED <<arg, stage, result, attempt, elapsed, cur, clog, firstJson,
                   skipped, waited, writes>>
    /\ UNCHANGED <<ctrlVars, portVars>>
    /\ UNCHANGED nonLinkVars

\* the controller as start() leaves it when the device advertised the
\* default limits with status ok
ConnectedInit ==
    /\ phase = "ready"
    /\ is_connected = TRUE
    /\ servo_enabled = TRUE
    /\ limits = DefaultLimits
    /\ startupCount = 1
    /\ sawFullOk = TRUE
    /\ devLimits = DefaultLimits
    /\ inbuf = <<>>
    /\ pending = FALSE
    /\ pendingFor = Untraced
    /\ CallInit
    /\ tracking_active = FALSE

ConcNext ==
    \/ \E d \in TrackDeltas : \E beep \in BOOLEAN : track_detected(d[1], d[2], beep)
    \/ track_lost
    \/ get_position("capture")
    \/ DeviceReply
    \/ \E t \in Threads : send_command(t)
    \/ \E t \in Threads : FlushInput(t)
    \/ \E t \in Threads : Write(t)
    \/ \E t \in Threads : ReadPass(t)
    \/ \E t \in Threads : ReadSleep(t)
    \/ \E t \in Threads : ReadTimedOut(t)
    \/ \E t \in Threads : Return(t)
    \/ \E t \in Threads : Finish(t)

InitConc == ConnectedInit /\ TempInit /\ IllumParked /\ RestInit

(***************************************************************************)
(* MosquitoTracker.cleanup while the threads run                           *)
(***************************************************************************)
\* the threads started for _beep_async and _home_async
Background == {"beep", "home"}
\* a thread between the flushInput of an attempt and the end of its read
Exchange == {"sc_flush", "sc_write", "sc_read"}

\* run's finally clause, mosquito_tracker.py lines 523-536: cleanup calls
\* controller.close() at once, and close() (pt2d_controller.py, lines
\* 568-573) closes the port and clears is_connected.  No thread is joined:
\* the threads are daemons of which no reference is kept.
cleanup ==
    /\ phase = "ready"
    /\ pc["capture"] = "idle"
    /\ phase' = "closed"
    /\ is_connected' = FALSE
    /\ UNCHANGED <<servo_enabled, limits, startupCount, sawFullOk>>
    /\ UNCHANGED <<portVars, callVars, trackVars>>
    /\ UNCHANGED nonLinkVars

\* flushInput, write, in_waiting and readline raise on a closed port; the
\* except clause of send_command catches it
closed_raises(t) ==
    /\ phase = "closed"
    /\ SerialRaises(t)

ShutNext ==
    \/ \E d \in TrackDeltas : \E beep \in BOOLEAN : track_detected(d[1], d[2], beep)
    \/ track_lost
    \/ cleanup
    \/ DeviceReply
    \/ \E t \in Threads : send_command(t)
    \/ \E t \in Threads : phase = "ready" /\ FlushInput(t)
    \/ \E t \in Threads : phase = "ready" /\ Write(t)
    \/ \E t \in Threads : phase = "ready" /\ ReadPass(t)
    \/ \E t \in Threads : phase = "ready" /\ ReadSleep(t)
    \/ \E t \in Threads : ReadTimedOut(t)
    \/ \E t \in Threads : closed_raises(t)
    \/ \E t \in Threads : Return(t)
    \/ \E t \in Threads : Finish(t)

SpecShut == InitConc /\ [][ShutNext]_vars

SpecConc == InitConc /\ [][ConcNext]_vars

\* the thread has written its command and is reading the response
InExchange(t) == pc[t] = "sc_read"

\* C4: no two requests are in flight on the link at the same time: at most
\* one thread is between the write of its command and the end of its read.
C4_OneRequestInFlight ==
    \A t, u \in Threads : (InExchange(t) /\ InExchange(u)) => t = u


(***************************************************************************)
(* The two interlocks; each is checked with the other components at rest   *)
(***************************************************************************)
InitTemp == LinkParked /\ TempInit /\ IllumParked /\ RestInit

SpecTemp == InitTemp /\ [][TempNext]_vars

InitIllum == LinkParked /\ TempInit /\ IllumInit /\ RestInit

SpecIllum == InitIllum /\ [][IllumNext]_vars

\* C9: temperature readings that never fall to or below the resume threshold
\* cause at most one not-paused -> paused transition, and once paused the
\* interlock stays paused until a sample at or below the resume threshold.
C9_TemperatureHysteresis ==
    /\ ~tempLow => tempPauses <= 1
    /\ (tempPauses > 0 /\ ~tempLowSincePause) => is_paused

\* paused once, then samples under the pause threshold (but above the resume
\* threshold) left it paused
C9_Witness ==
    /\ tempPauses = 1 /\ is_paused /\ ~tempLow
    /\ last_temperature < TEMPERATURE_PAUSE_THRESHOLD
    /\ last_temperature >= TEMPERATURE_WARNING_THRESHOLD
    /\ now - TEMPERATURE_CHECK_INTERVAL >= 3 * TEMPERATURE_CHECK_INTERVAL

InitTrack == LinkParked /\ TempInit /\ IllumParked /\ RestInit

SpecTrack == InitTrack /\ [][TrackNext]_vars
InitScenario == LinkParked /\ TempInit /\ IllumParked /\ RestInit

SpecScenario == InitScenario /\ [][ScenarioNext]_vars

\* the detections of the last frame within the lock distance of the position
\* that was locked before it
NearLock == { a \in FrameDets(frame) : WithinLock(a, pre.locked) }
\* a frame was processed while a target position was locked
WasLocked == pre.valid /\ pre.tracking /\ pre.locked.known
MostConfident(a) == a \in FrameDets(frame) /\ \A b \in FrameDets(frame) : a.conf >= b.conf
LockedOn(a) == locked_target_position = TargetAt(a.x, a.y)

\* C14: while locked, when the frame holds a detection within the lock
\* distance of the locked position, the target selected is such a detection,
\* never a detection farther away, however confident, and the lock follows it.
C14_LockStaysNear ==
    (WasLocked /\ NearLock # {}) =>
        /\ selected \in NearLock
        /\ LockedOn(selected)
        /\ tracking_active

\* the near detection was kept although the frame held a more confident one
\* out of the lock distance
C14_Witness ==
    /\ WasLocked /\ FrameSize(frame) = 2
    /\ selected \in NearLock
    /\ \E b \in FrameDets(frame) \ NearLock : b.conf > selected.conf
    /\ pre.locked # locked_target_position

\* C15: a frame without detections more than no_detection_timeout after the
\* last detection ends the tracking and starts one return-to-home thread; an
\* empty frame within the timeout keeps tracking_active and starts none; empty
\* frames while not tracking, and frames with a target, start none.
C15_TimeoutUnlock ==
    pre.valid =>
        IF FrameSize(frame) = 0 /\ pre.tracking
          THEN IF trackNow - last_detection_time > NO_DETECTION_TIMEOUT
                 THEN ~tracking_active /\ spawned.home = 1 /\ ~locked_target_position.known
                 ELSE tracking_active /\ spawned.home = 0
          ELSE /\ spawned.home = 0
               /\ FrameSize(frame) = 0 => ~tracking_active

\* after a loss, a further empty frame started no return-to-home
C15_Witness ==
    /\ pre.valid /\ ~pre.tracking /\ FrameSize(frame) = 0
    /\ last_detection_time > 0
    /\ trackNow - last_detection_time > NO_DETECTION_TIMEOUT
    /\ spawned.home = 0

\* C16 as claimed: while a position is locked, the lock moves to something
\* other than a detection within the lock distance only by the timeout.
C16_LockHeldUntilTimeout ==
    (WasLocked /\ NearLock = {} /\ locked_target_position # pre.locked)
        => (~tracking_active /\ spawned.home = 1)

\* C16 as the code has it: tracking_active falls only by the timeout, but the
\* locked position is given up in the first frame without a detection within
\* the lock distance: a detection of that frame is adopted at once, and with
\* none the position is forgotten.
C16_LockReleasedOnMiss ==
    /\ (pre.valid /\ pre.tracking /\ ~tracking_active)
          => (selected = NoDet /\ trackNow - last_detection_time > NO_DETECTION_TIMEOUT)
    /\ (WasLocked /\ NearLock = {}) =>
          IF selected # NoDet
            THEN tracking_active /\ LockedOn(selected)
            ELSE ~locked_target_position.known

\* within the timeout an empty frame left the tracker tracking with no position
C16_Witness ==
    /\ WasLocked /\ FrameSize(frame) = 0
    /\ tracking_active /\ ~locked_target_position.known
    /\ trackNow - last_detection_time <= NO_DETECTION_TIMEOUT

\* C17: when not tracking, a frame with detections makes the tracker lock on a
\* detection of the highest confidence of that frame, both cameras together.
C17_NewTargetMostConfident ==
    (pre.valid /\ ~pre.tracking /\ FrameSize(frame) > 0) =>
        /\ MostConfident(selected)
        /\ LockedOn(selected)
        /\ tracking_active

\* the most confident detection was the right camera's, far from the other
C17_Witness ==
    /\ pre.valid /\ ~pre.tracking /\ Len(frame.left) = 1 /\ Len(frame.right) = 1
    /\ selected = frame.right[1]
    /\ selected.conf > frame.left[1].conf
    /\ ~WithinLock(frame.left[1], locked_target_position)

C19_ScenarioFollowsA ==
    scen > 0 =>
        /\ selected = ScenarioA(scen - 1)
        /\ LockedOn(ScenarioA(scen - 1))
        /\ tracking_active

\* the whole scenario was played
C19_Witness ==
    /\ scen = ScenarioFrames
    /\ selected = ScenarioA(ScenarioFrames - 1)
    /\ WithinLock(ScenarioB, pre.locked)

\* C20: while locked, a frame with detections of which none is within the lock
\* distance makes the tracker lock, in that frame, on a detection of the
\* highest confidence.
C20_RelockOnMostConfident ==
    (WasLocked /\ NearLock = {} /\ FrameSize(frame) > 0) =>
        /\ MostConfident(selected)
        /\ LockedOn(selected)
        /\ locked_target_position # pre.locked
        /\ tracking_active

\* the lock went from insect A to the far insect the right camera saw
C20_Witness ==
    /\ WasLocked /\ pre.locked = TargetAt(ScenarioA(0).x, ScenarioA(0).y)
    /\ Len(frame.left) = 1 /\ Len(frame.right) = 1
    /\ selected = frame.right[1] /\ selected.conf > frame.left[1].conf
    /\ LockedOn(selected)

(***************************************************************************)
(* The capture loop (checked under SpecRun)                                *)
(***************************************************************************)
InitRun == ConnectedInit /\ TempInit /\ IllumInit /\ TrackerInit /\ RunInit /\ ExtraInit

SpecRun == InitRun /\ [][RunNext]_vars

\* the last pass made the call m
Called(m) == \E i \in 1..Len(runCalls) : runCalls[i] = m
\* the last pass got a frame from the camera
FramePass == runFrames > 0 /\ Called("read")
\* a detection for which track_mosquito asks for a move
OffCentre(dets) == \E i \in 1..Len(dets) : MoveFor(dets[i]).asked

\* C11: a pass in which the temperature monitor reports paused calls neither
\* detect nor track_mosquito and asks for no move; a call of detect in which
\* the illumination check reports paused returns no detection and does not
\* run the backend.
C11_PausedSkipsFusion ==
    /\ (FramePass /\ temp_paused) =>
          /\ ~Called("detect")
          /\ ~Called("track_mosquito")
          /\ ~Called("move_by")
          /\ ~Called("move_to")
    /\ (detectOut.called /\ detectOut.paused) =>
          /\ detectOut.returned = <<>>
          /\ ~detectOut.backend

\* a pass paused by the temperature, after a pass in which detect was paused
\* by the dark
C11_Witness ==
    /\ FramePass /\ temp_paused /\ is_paused
    /\ last_temperature >= TEMPERATURE_PAUSE_THRESHOLD
    /\ detectOut.called /\ detectOut.paused
    /\ current_illumination < ILLUMINATION_PAUSE_THRESHOLD

\* C12: a pass in which the temperature monitor reports paused sends a
\* laser-off command through the controller.
C12_PausedSendsLaserOff ==
    (FramePass /\ temp_paused) => (Called("set_laser") \/ Called("laser_off"))

\* C13: a pass that is not paused and in which detect returns detections
\* hands them to track_mosquito, and asks for a move when one of them is far
\* enough from the centre of the frame.
C13_DetectionsReachTracker ==
    (FramePass /\ ~temp_paused /\ Called("detect")
       /\ ~detectOut.paused /\ ~detectOut.raised) =>
        /\ Called("track_mosquito")
        /\ OffCentre(detectOut.returned) => Called("move_by")

(***************************************************************************)
(* The unique-target tracks (checked under SpecUnique)                     *)
(***************************************************************************)
InitUnique == LinkParked /\ TempInit /\ IllumParked /\ RestInit

SpecUnique == InitUnique /\ [][UniqueNext]_vars

\* the track ids given in the last update
AssignedIds == { assigned[k] : k \in 1..Len(assigned) }

\* C21 as claimed: one detection a frame, moving by less than
\* max_movement_px_per_frame between frames, keeps the first track id, and no
\* second track is created.
C21_OneTrackId ==
    (walkSlow >= 0 /\ assigned # <<>>) =>
        (assigned = <<1>> /\ next_track_id = 2)

\* C21 as the code has it: the same holds when every move is under
\* track_distance_threshold.
C21_OneTrackIdWithinThreshold ==
    (walkNear >= 0 /\ assigned # <<>>) =>
        /\ assigned = <<1>>
        /\ next_track_id = 2
        /\ DOMAIN active_tracks = {1}
        /\ active_tracks[1].center = updDets[1]

\* the object moved twice and is still track 1
C21_Witness ==
    /\ walkNear = 2
    /\ assigned = <<1>>
    /\ active_tracks[1].center = Centre(120, 0)

\* C22: after an update no track is older than track_lost_frames_max, no
\* deleted id is in use, and every id in use or deleted is below
\* next_track_id, the only source of new ids.
C22_PurgedNeverReused ==
    /\ \A i \in DOMAIN active_tracks :
          active_tracks[i].lost_frames <= TRACK_LOST_FRAMES_MAX
    /\ removed \cap DOMAIN active_tracks = {}
    /\ removed \cap AssignedIds = {}
    /\ \A i \in removed \cup DOMAIN active_tracks \cup AssignedIds : i < next_track_id

\* track 1 was deleted and a later detection at its place became track 3
C22_Witness ==
    /\ removed = {1}
    /\ 3 \in AssignedIds
    /\ 3 \in DOMAIN active_tracks
    /\ active_tracks[3].lost_frames = 0

\* C30: no two detections of one update are given the same track id.
C30_OneDetectionPerTrack ==
    \A i, j \in 1..Len(assigned) : i # j => assigned[i] # assigned[j]

\* C28: a check whose read of the sensor failed reports not paused, whatever
\* the pause state was before it.
C28_UnreadableReportsNormal ==
    tempStatus = "unavailable" => ~is_paused

(***************************************************************************)
(* Specification: _detect_tiled on frames and tiles of every small size    *)
(***************************************************************************)
InitTile ==
    LinkParked /\ TempInit /\ IllumParked /\ TrackerInit /\ RunParked
    /\ UniqueInit /\ TileInit /\ NmsParked /\ StreamParked /\ ProbeParked

SpecTile == InitTile /\ [][TileNext]_vars

\* C23: once the origins are computed, every pixel of the frame lies in a
\* window, and the last window of a row ends at the right edge and the last
\* of a column at the bottom edge.
C23_TilesCoverFrame ==
    tileXs # <<>> =>
        /\ \A px \in 0..(frameW - 1), py \in 0..(frameH - 1) :
              \E t \in TileWindows :
                  /\ t.x0 <= px /\ px < t.x1
                  /\ t.y0 <= py /\ py < t.y1
        /\ TileWindow(tileXs[Len(tileXs)], tileYs[Len(tileYs)]).x1 = frameW
        /\ TileWindow(tileXs[Len(tileXs)], tileYs[Len(tileYs)]).y1 = frameH
        /\ \A t \in TileWindows : t.x0 >= 0 /\ t.y0 >= 0 /\ t.x0 < t.x1 /\ t.y0 < t.y1

\* a frame 8 wide under tiles of 3 with stride 2: the range gives 0, 2, 4 and
\* the window at 5 is added to reach the edge; the frame is lower than a tile
C23_Witness ==
    /\ frameW = 8 /\ imgsz = 3 /\ tile_overlap = 25
    /\ tileXs = <<0, 2, 4, 5>>
    /\ frameH = 2
    /\ tileYs = <<0>>

(***************************************************************************)
(* Specification: _nms on short lists of boxes, then on its own result     *)
(***************************************************************************)
InitNms ==
    LinkParked /\ TempInit /\ IllumParked /\ TrackerInit /\ RunParked
    /\ UniqueInit /\ TileParked /\ NmsInit /\ StreamParked /\ ProbeParked

SpecNms == InitNms /\ [][NmsNext]_vars

\* C24: no two boxes of a result overlap by more than the threshold, and
\* _nms applied to its own result returns that list again.
C24_NmsIdempotent ==
    /\ nmsRuns >= 1 =>
          \A i, j \in 1..Len(nmsOut) : i # j => ~Overlaps(nmsOut[i], nmsOut[j])
    /\ nmsRuns >= 2 => nmsOut = nmsIn

\* a second call on a result the first call had cut from three boxes to two
C24_Witness ==
    /\ nmsRuns = 2
    /\ Len(nmsOut) = 2
    /\ nmsOut = nmsIn
    /\ nmsOut[1].confidence = nmsOut[2].confidence

\* the detection at place i of the list was kept
Kept(i) == \E k \in 1..Len(nmsKept) : nmsKept[k] = i

\* detections i and j of the list have one confidence, overlap by more than
\* the threshold, and i comes first
TiedPair(i, j) ==
    /\ i < j
    /\ nmsIn[i].confidence = nmsIn[j].confidence
    /\ Overlaps(nmsIn[i], nmsIn[j])

\* C25 as claimed: of two overlapping boxes of equal confidence the first of
\* the list is kept and the later one is not.
C25_FirstSeenKept ==
    nmsRuns = 1 =>
        \A i, j \in 1..Len(nmsIn) : TiedPair(i, j) => (Kept(i) /\ ~Kept(j))

\* C25 as the code has it: the result is in descending confidence with equal
\* confidences in the order of the list; of such a pair the later box is
\* never kept beside the first, and the first is dropped only for a kept box
\* that comes before it in that order.
C25_FirstSeenOutranks ==
    nmsRuns = 1 =>
        /\ \A k, l \in 1..Len(nmsKept) : k < l =>
              \/ nmsIn[nmsKept[k]].confidence > nmsIn[nmsKept[l]].confidence
              \/ /\ nmsIn[nmsKept[k]].confidence = nmsIn[nmsKept[l]].confidence
                 /\ nmsKept[k] < nmsKept[l]
        /\ \A i, j \in 1..Len(nmsIn) : TiedPair(i, j) =>
              /\ Kept(i) => ~Kept(j)
              /\ ~Kept(i) =>
                    \E m \in 1..Len(nmsIn) :
                        /\ Kept(m)
                        /\ Overlaps(nmsIn[m], nmsIn[i])
                        /\ \/ nmsIn[m].confidence > nmsIn[i].confidence
                           \/ nmsIn[m].confidence = nmsIn[i].confidence /\ m < i

\* two overlapping boxes of confidence 0.5 after a separate box of 0.9: the
\* first of the two is kept, the second dropped
C25_Witness ==
    /\ nmsRuns = 1
    /\ Len(nmsIn) = 3
    /\ TiedPair(2, 3)
    /\ nmsIn[1].confidence > nmsIn[2].confidence
    /\ nmsKept = <<1, 2>>

(***************************************************************************)
(* Specification: track_mosquito on frames whose move may fail             *)
(***************************************************************************)
InitMove == LinkParked /\ TempInit /\ IllumParked /\ RestInit

SpecMove == InitMove /\ [][MoveNext]_vars

\* the move_by call of the last frame did not succeed
MoveFailed == moveDone.outcome \in {"error", "timeout", "raised"}

\* C26: after a frame whose move_by call returned an error, timed out or
\* raised, the tracker's four fields are those a successful call would have
\* left, and no exception leaves track_mosquito.
C26_FailedMoveLeavesTracker ==
    MoveFailed =>
        /\ tracking_active = moveDone.expected.tracking_active
        /\ locked_target_position = moveDone.expected.locked_target_position
        /\ last_detection_time = moveDone.expected.last_detection_time
        /\ last_beep_time = moveDone.expected.last_beep_time
        /\ ~moveDone.raised

\* a frame processed while tracking whose move raised: the lock moved on to
\* the new place
C26_Witness ==
    /\ moveDone.outcome = "raised"
    /\ pre.valid /\ pre.tracking
    /\ pre.locked = TargetAt(300, 200)
    /\ tracking_active
    /\ locked_target_position = TargetAt(305, 203)
    /\ last_detection_time = trackNow

(***************************************************************************)
(* Specification: the capture loop of StreamingTrackingSystem.run          *)
(***************************************************************************)
\* the detector is built without illumination monitoring
InitStream ==
    LinkParked /\ TempInit /\ (IllumInit /\ ~enable_illumination_monitoring)
    /\ TrackerInit /\ RunParked
    /\ UniqueInit /\ TileParked /\ NmsParked /\ StreamInit /\ ProbeParked

SpecStream == InitStream /\ [][StreamNext]_vars

\* C27: when the backend raised in the last pass, detect returned the empty
\* list, no detection was accepted, nothing left process_frame, and the loop
\* is still going unless stop() has been called since.
C27_BackendFailureIsEmptyFrame ==
    (streamOut.read /\ streamOut.raised) =>
        /\ detectOut.returned = <<>>
        /\ streamOut.detected = <<>>
        /\ streamOut.accepted = <<>>
        /\ ~streamOut.escaped
        /\ streamRunning \/ streamOut.stopped

\* the backend raised in the second pass and the loop goes on, its tracks
\* aged by no update
C27_Witness ==
    /\ streamFrames = 2
    /\ streamOut.read /\ streamOut.raised
    /\ detectOut.backend
    /\ streamRunning
    /\ DOMAIN active_tracks = {1}

\* C29: in dual-camera mode with depth estimation, a detection accepted
\* without depth has passed the size and aspect filters.
C29_NoDepthStillFiltered ==
    \A k \in 1..Len(streamOut.accepted) :
        (streamOut.path = "depth" /\ ~streamOut.accepted[k].depth.known) =>
            (SizeOk(streamOut.accepted[k]) /\ AspectOk(streamOut.accepted[k]))

\* C31: in every pass that read a frame, each track the pass did not match
\* has its lost_frames raised by one, or is deleted once that exceeds
\* track_lost_frames_max.
C31_EveryFrameAges ==
    streamOut.read =>
        \A i \in DOMAIN streamOut.before :
            (streamOut.detected = <<>> \/ i \notin AssignedIds) =>
                IF i \in DOMAIN active_tracks
                  THEN active_tracks[i].lost_frames = streamOut.before[i].lost_frames + 1
                  ELSE streamOut.before[i].lost_frames + 1 > TRACK_LOST_FRAMES_MAX

(***************************************************************************)
(* Specification: the size filter on one detection of the detector         *)
(***************************************************************************)
InitSize ==
    LinkParked /\ TempInit /\ IllumParked /\ TrackerInit /\ RunParked
    /\ UniqueInit /\ TileParked /\ NmsParked /\ StreamParked /\ SizeInit

SpecSize == InitSize /\ [][SizeNext]_vars

\* C32: the size filter accepts a detection exactly when the larger of the
\* width and height of its (x, y, width, height) box is within
\* min_bbox_size_px .. max_bbox_size_px.
C32_SizeOnLargerSide ==
    verdict.done =>
        (verdict.accepted <=>
            /\ Max2(probe.bbox[3], probe.bbox[4]) >= MIN_BBOX_SIZE_PX
            /\ Max2(probe.bbox[3], probe.bbox[4]) <= MAX_BBOX_SIZE_PX)

\* C33: the filter accepts nothing in the first min_consecutive_frames - 1
\* frames of a run, in which no track can have been matched in
\* min_consecutive_frames frames.
C33_NothingAcceptedEarly ==
    (streamOut.path = "mono" /\ streamFrames < MIN_CONSECUTIVE_FRAMES) =>
        streamOut.accepted = <<>>

\* C34: after a pass through _apply_monocular_filters every track that had
\* a history before the filter still has one, and the track of every
\* detection of the frame, accepted or not, is still active.
C34_RejectionKeepsTrack ==
    streamOut.path = "mono" =>
        /\ DOMAIN streamOut.filterIn \subseteq DOMAIN detection_history
        /\ AssignedIds \subseteq DOMAIN active_tracks

\* track 1 had a history, and its detection in this frame was rejected for
\* its size
C34_Witness ==
    /\ streamOut.path = "mono"
    /\ 1 \in DOMAIN streamOut.filterIn
    /\ assigned = <<1>>
    /\ ~SizeOk(streamOut.detected[1])
    /\ streamOut.accepted = <<>>
    /\ 1 \in DOMAIN detection_history
    /\ 1 \in DOMAIN active_tracks

\* q is the product of e and pct percent, cut toward zero
IsTrunc(q, e, pct) ==
    /\ q * e >= 0
    /\ Abs(q) * 100 <= Abs(e) * pct
    /\ Abs(e) * pct < (Abs(q) + 1) * 100

\* the angles the claim gives for the selected detection
IsMoveOf(pan, tilt) ==
    /\ IsTrunc(pan, selected.x - CAMERA_WIDTH \div 2, PAN_GAIN_PCT)
    /\ IsTrunc(tilt, CAMERA_HEIGHT \div 2 - selected.y, TILT_GAIN_PCT)

\* C35: the move asked for the selected detection is the pair of its
\* offsets from the frame centre, the vertical one inverted, each times its
\* gain and cut toward zero; no move is asked exactly when both angles are
\* at most 2 in absolute value.
C35_MoveIsScaledOffset ==
    selected # NoDet =>
        \E pan \in -300..300 : \E tilt \in -100..100 :
            /\ IsMoveOf(pan, tilt)
            /\ IF Abs(pan) <= MOVE_DEADBAND /\ Abs(tilt) <= MOVE_DEADBAND
                 THEN ~moveReq.asked
                 ELSE moveReq = [asked |-> TRUE, pan |-> pan, tilt |-> tilt]

\* a move whose two angles are cut, one from -242.25 and one from 50.55
C35_Witness ==
    /\ selected = ScenarioA(1)
    /\ moveReq = [asked |-> TRUE, pan |-> -242, tilt |-> 50]

(***************************************************************************)
(* Specification: the depth filter on one detection                        *)
(***************************************************************************)
InitDepth ==
    LinkParked /\ TempInit /\ IllumParked /\ TrackerInit /\ RunParked
    /\ UniqueInit /\ TileParked /\ NmsParked /\ StreamParked /\ DepthInit

SpecDepth == InitDepth /\ [][DepthNext]_vars

\* C36: a detection whose depth is known is kept exactly when the larger
\* side of its box, times the depth in millimetres, over the focal length in
\* pixels, lies within min_mosquito_size_mm .. max_mosquito_size_mm.
C36_SizeFromDepth ==
    (verdict.done /\ probe.disparity > 0) =>
        LET bbox_px == Max2(probe.bbox[3], probe.bbox[4])
            depth_mm == (FOCAL_LENGTH_PX * DEPTH_BASELINE) \div probe.disparity
        IN  verdict.accepted <=>
                /\ MIN_MOSQUITO_SIZE_MM * FOCAL_LENGTH_PX <= bbox_px * depth_mm
                /\ bbox_px * depth_mm <= MAX_MOSQUITO_SIZE_MM * FOCAL_LENGTH_PX

\* C38: the response send_command returns is the device's reply to the
\* command that call wrote last, never the late reply to a command written
\* before it.
C38_ReplyAnswersItsCommand ==
    \A t \in Threads :
        (pc[t] = "sc_ret" /\ writes[t] > 0 /\ firstJson[t].kind = "json")
            => firstJson[t].for = cmd[t].op

\* C39: when a call of track_mosquito ends with tracking_active false,
\* locked_target_position is None.
C39_LockOnlyWhileTracking ==
    (pre.valid /\ ~tracking_active) => ~locked_target_position.known

\* a call that found the tracker locked on a target and ended the tracking
\* for want of detections
C39_Witness ==
    /\ pre.valid /\ pre.tracking
    /\ selected = NoDet
    /\ ~tracking_active
    /\ ~locked_target_position.known
    /\ locks >= 1
    /\ spawned.home = 1

\* C37: the serial link is not closed while a thread started for the beep
\* or the return to home is in the middle of a command exchange.  cleanup
\* waits for nothing, so no deadline can have expired when it closes.
C37_ClosedOnlyWhenIdle ==
    phase = "closed" => \A t \in Background : pc[t] \notin Exchange

====
